---- MODULE Spec2Model ----
(***************************************************************************)
(* Model of the rune bundle's multi-pass renderers                         *)
(* (src/src/legacy/bundles/rune/functions.ts): the scene graph the         *)
(* combinators build, AnaglyphRune.draw, HollusionRune's constructor, its  *)
(* bake phase and the playback callback it returns, running against one    *)
(* WebGL context.                                                          *)
(*                                                                         *)
(* Units.  Hollusion distances are counted in tenths (1 = 0.1).  A camera  *)
(* x-offset is kept as the exact numerator of a fraction over `period`:    *)
(* xshift = xshiftMax * (2 * ((2 * raw) / period) - 1)                     *)
(*        = xshiftMax * (4 * raw - period) / period.                       *)
(* Times are integer milliseconds.                                         *)
(***************************************************************************)
EXTENDS Integers, Sequences, FiniteSets, TLC

VARIABLES
    heap,        \* the Rune objects: heap[id] is the Rune with reference id
    drawnRunes,  \* the AnaglyphRune / HollusionRune objects constructed so far
    sessions,    \* the playback closures returned by HollusionRune.draw
    gl,          \* the WebGL context shared by every draw on the canvas
    lastCall,    \* history: the handler that ran last
    ramp,        \* the camera ramp computed so far (camera-ramp specification)
    clock,       \* the time under evaluation (frame-index specification)
    held,        \* the Rune references a calling program holds
    call,        \* history: the combinator call made last
    pixel,       \* one pixel of the combining pass (pixel specification)
    sounds,      \* the Sounds a program has made with the sound module
    host,        \* the calls the sound host has received from the plugin
    soundCall    \* history: the call of the sound module made last

renderVars == <<heap, drawnRunes, sessions, gl, lastCall>>
graphVars == <<held, call>>
soundVars == <<sounds, host, soundCall>>
probeVars == <<ramp, clock, held, call, pixel, soundVars>>
vars == <<heap, drawnRunes, sessions, gl, lastCall, ramp, clock, held, call, pixel,
          sounds, host, soundCall>>

----------------------------------------------------------------------------
(* Program constants                                                       *)

period == 2000
frameCount == 50
halfEyeDistance == 3
DefaultHollusionDistance == 1

(* Bounds of the model                                                     *)

MaxDrawn == 2
MaxSessions == 1
MaxAnaglyphDraws == 1
MaxMagnitude == 2
MaxTime == 4100
MaxCalls == 2
MaxStackn == 3
MaxRepeat == 3

----------------------------------------------------------------------------
(* JavaScript arithmetic                                                   *)

\* Math.floor(a / b) for b > 0
Floor(a, b) == a \div b

\* a % b of JavaScript: the sign follows the dividend
JsRem(a, b) == IF a >= 0 THEN a % b ELSE -((-a) % b)

RECURSIVE SeqToSet(_)
SeqToSet(s) == IF s = <<>> THEN {} ELSE {Head(s)} \cup SeqToSet(Tail(s))

\* Then(value), with value computed once whatever the number of times Then
\* uses it (an intermediate result of a call, used by the statements after)
Bind(value, Then(_)) == CHOOSE result \in {Then(v) : v \in {value}} : TRUE

\* A number that is not a time or a count (a ratio, a fraction, a matrix
\* entry) is the exact rational n/d, kept as <<n, d>> in lowest terms with
\* d > 0; the rounding of the double-precision arithmetic is not modelled.
RECURSIVE GCD(_, _)
GCD(a, b) == IF b = 0 THEN a ELSE GCD(b, a % b)

Abs(a) == IF a < 0 THEN -a ELSE a

Rat(n, d) ==
    LET g == GCD(Abs(n), Abs(d))
    IN IF d < 0 THEN << -(n \div g), -(d \div g) >> ELSE << n \div g, d \div g >>

Zero == Rat(0, 1)
One == Rat(1, 1)

RNeg(p) == << -p[1], p[2] >>

\* p + q, p - q, p * q (the factors are reduced before they are multiplied)
RAdd(p, q) ==
    LET g == GCD(p[2], q[2])
    IN Rat(p[1] * (q[2] \div g) + q[1] * (p[2] \div g), (p[2] \div g) * q[2])

RSub(p, q) == RAdd(p, RNeg(q))

RMul(p, q) ==
    LET g1 == GCD(Abs(p[1]), q[2])
        g2 == GCD(Abs(q[1]), p[2])
    IN IF p[1] = 0 \/ q[1] = 0 THEN Zero
       ELSE << (p[1] \div g1) * (q[1] \div g2), (p[2] \div g2) * (q[2] \div g1) >>

\* a/b < c/d for a, c >= 0 and b, d > 0, by comparing the integer parts and
\* then the reciprocals of the fractional parts
RECURSIVE LessPos(_, _, _, _)
LessPos(a, b, c, d) ==
    IF a \div b # c \div d THEN a \div b < c \div d
    ELSE IF c % d = 0 THEN FALSE
    ELSE IF a % b = 0 THEN TRUE
    ELSE LessPos(d, c % d, b, a % b)

\* p < q, p <= q
RLess(p, q) ==
    IF p[1] < 0
    THEN IF q[1] < 0 THEN LessPos(-q[1], q[2], -p[1], p[2]) ELSE TRUE
    ELSE IF q[1] < 0 THEN FALSE ELSE LessPos(p[1], p[2], q[1], q[2])

RLeq(p, q) == ~RLess(q, p)

----------------------------------------------------------------------------
(* Transform matrices (gl-matrix)                                          *)
(*                                                                         *)
(* Every matrix the bundle builds is a product of x/y/z scalings,          *)
(* translations and rotations about the z axis: a 2x2 block on x and y     *)
(* (xx xy / yx yy), a translation (tx, ty), a z scale zz and a z           *)
(* translation tz.  A point (x, y, z) is mapped to                         *)
(* (xx x + xy y + tx, yx x + yy y + ty, zz z + tz).  Angles are counted in  *)
(* quarter turns (1 = pi / 2), positive anticlockwise.                     *)

\* mat4.create()
mat4_create ==
    [xx |-> One, xy |-> Zero, yx |-> Zero, yy |-> One, tx |-> Zero, ty |-> Zero,
     zz |-> One, tz |-> Zero]

\* mat4.multiply(out, a, b): a * b, the map that applies b first
mat4_multiply(left, right) ==
    Bind(left, LAMBDA a : Bind(right, LAMBDA b :
        [xx |-> RAdd(RMul(a.xx, b.xx), RMul(a.xy, b.yx)),
         xy |-> RAdd(RMul(a.xx, b.xy), RMul(a.xy, b.yy)),
         yx |-> RAdd(RMul(a.yx, b.xx), RMul(a.yy, b.yx)),
         yy |-> RAdd(RMul(a.yx, b.xy), RMul(a.yy, b.yy)),
         tx |-> RAdd(RAdd(RMul(a.xx, b.tx), RMul(a.xy, b.ty)), a.tx),
         ty |-> RAdd(RAdd(RMul(a.yx, b.tx), RMul(a.yy, b.ty)), a.ty),
         zz |-> RMul(a.zz, b.zz),
         tz |-> RAdd(RMul(a.zz, b.tz), a.tz)]))

\* mat4.scale(out, a, vec3.fromValues(x, y, z)): a * scaling
mat4_scale(a, x, y, z) ==
    mat4_multiply(a, [mat4_create EXCEPT !.xx = x, !.yy = y, !.zz = z])

\* mat4.translate(out, a, vec3.fromValues(x, y, z)): a * translation
mat4_translate(a, x, y, z) ==
    mat4_multiply(a, [mat4_create EXCEPT !.tx = x, !.ty = y, !.tz = z])

\* Math.cos and Math.sin of a number of quarter turns
Cos(quarters) == Rat(<<1, 0, -1, 0>>[(quarters % 4) + 1], 1)
Sin(quarters) == Rat(<<0, 1, 0, -1>>[(quarters % 4) + 1], 1)

\* mat4.rotateZ(out, a, rad): a * rotation about the z axis
mat4_rotateZ(a, quarters) ==
    mat4_multiply(a, [mat4_create EXCEPT !.xx = Cos(quarters), !.xy = RNeg(Sin(quarters)),
                                 !.yx = Sin(quarters), !.yy = Cos(quarters)])

\* the image of the point (x, y) of the plane z = 0 under matrix m
Apply(m, x, y) ==
    << RAdd(RAdd(RMul(m.xx, x), RMul(m.xy, y)), m.tx),
       RAdd(RAdd(RMul(m.yx, x), RMul(m.yy, y)), m.ty) >>

\* the image of depth z under matrix m
ApplyZ(m, z) == RAdd(RMul(m.zz, z), m.tz)

----------------------------------------------------------------------------
(* Scene graph                                                             *)
(*                                                                         *)
(* A combinator is given the heap and its arguments and yields the heap    *)
(* after the call, the value it returns (a Rune reference, 0 when it       *)
(* throws) and the error it throws (NoError when it returns).              *)

\* a value that is not a Rune (a number, a string, undefined)
NotARune == 0

NoError == [kind |-> "none", name |-> ""]

\* the error throwIfNotRune(name, ...) throws
TypeError(name) == [kind |-> "type", name |-> name]

\* Error('<name> can only take fraction in [0,1].')
RangeError(name) == [kind |-> "range", name |-> name]

\* Rune.of(params): a new Rune; unset fields take their defaults
RuneOf(vertices, subRunes, transformMatrix, colors) ==
    [vertices |-> vertices, subRunes |-> subRunes,
     transformMatrix |-> transformMatrix, colors |-> colors,
     texture |-> "none", hollusionDistance |-> DefaultHollusionDistance]

\* allocation of a new Rune object: the extended heap and the new reference
Alloc(h, rune) == [heap |-> Append(h, rune), id |-> Len(h) + 1, error |-> NoError]

\* a call that returns an existing value, resp. throws
Return(h, value) == [heap |-> h, id |-> value, error |-> NoError]
Throw(h, error) == [heap |-> h, id |-> NotARune, error |-> error]

\* the static primitives RuneFunctions.square and RuneFunctions.blank
square == 1
blank == 2
InitHeap ==
    << RuneOf("square", <<>>, mat4_create, "none"),
       RuneOf("blank", <<>>, mat4_create, "none") >>

isRune(h, x) == x \in DOMAIN h

\* throwIfNotRune(name, ...runes): the error it throws, if any
throwIfNotRune(h, name, runes) ==
    IF \E i \in DOMAIN runes : ~isRune(h, runes[i]) THEN TypeError(name) ELSE NoError

\* a from_url that hangs the square below its textured primitive
from_urlOverSquare(h, imageUrl) ==
    Alloc(h, [RuneOf("square", <<square>>, mat4_create, "none") EXCEPT !.texture = imageUrl])

\* from_url(imageUrl): a fresh square whose texture is the image
from_url(h, imageUrl) ==
    Alloc(h, [RuneOf("square", <<>>, mat4_create, "none") EXCEPT !.texture = imageUrl])

\* scale_independent(ratio_x, ratio_y, rune): a wrapper around rune
scale_independent(h, ratio_x, ratio_y, rune) ==
    IF throwIfNotRune(h, "scale_independent", <<rune>>) # NoError
    THEN Throw(h, TypeError("scale_independent"))
    ELSE LET scaleMat == mat4_scale(mat4_create, ratio_x, ratio_y, One)
             wrapperMat == mat4_multiply(scaleMat, mat4_create)
         IN Alloc(h, RuneOf("", <<rune>>, wrapperMat, "none"))

\* scale(ratio, rune)
scale(h, ratio, rune) ==
    IF throwIfNotRune(h, "scale", <<rune>>) # NoError
    THEN Throw(h, TypeError("scale"))
    ELSE scale_independent(h, ratio, ratio, rune)

\* translate that leaves the Rune where it is
translateUnmoved(h, x, y, rune) ==
    IF throwIfNotRune(h, "translate", <<rune>>) # NoError
    THEN Throw(h, TypeError("translate"))
    ELSE Alloc(h, RuneOf("", <<rune>>, mat4_create, "none"))

\* translate that does not negate y
translateUp(h, x, y, rune) ==
    IF throwIfNotRune(h, "translate", <<rune>>) # NoError
    THEN Throw(h, TypeError("translate"))
    ELSE Alloc(h, RuneOf("", <<rune>>, mat4_translate(mat4_create, x, y, Zero), "none"))

\* translate(x, y, rune): the translation vector is (x, -y, 0)
translate(h, x, y, rune) ==
    IF throwIfNotRune(h, "translate", <<rune>>) # NoError
    THEN Throw(h, TypeError("translate"))
    ELSE LET translateMat == mat4_translate(mat4_create, x, RNeg(y), Zero)
             wrapperMat == mat4_multiply(translateMat, mat4_create)
         IN Alloc(h, RuneOf("", <<rune>>, wrapperMat, "none"))

\* rotate(rad, rune)
rotate(h, rad, rune) ==
    IF throwIfNotRune(h, "rotate", <<rune>>) # NoError
    THEN Throw(h, TypeError("rotate"))
    ELSE LET rotateMat == mat4_rotateZ(mat4_create, rad)
             wrapperMat == mat4_multiply(rotateMat, mat4_create)
         IN Alloc(h, RuneOf("", <<rune>>, wrapperMat, "none"))

\* a stack_frac that builds its wrappers before it checks frac
stack_fracUnchecked(h, frac, rune1, rune2) ==
    IF throwIfNotRune(h, "stack_frac", <<rune1, rune2>>) # NoError
    THEN Throw(h, TypeError("stack_frac"))
    ELSE Bind(scale_independent(h, One, frac, rune1), LAMBDA s1 :
         Bind(translate(s1.heap, Zero, RNeg(RSub(One, frac)), s1.id), LAMBDA upper :
         Bind(scale_independent(upper.heap, One, RSub(One, frac), rune2), LAMBDA s2 :
         Bind(translate(s2.heap, Zero, frac, s2.id), LAMBDA lower :
             IF ~(RLeq(Zero, frac) /\ RLeq(frac, One))
             THEN Throw(lower.heap, RangeError("stack_frac"))
             ELSE Alloc(lower.heap, RuneOf("", <<upper.id, lower.id>>, mat4_create, "none"))))))

\* a stack_frac that translates the lower part by 1 - frac
stack_fracGap(h, frac, rune1, rune2) ==
    IF throwIfNotRune(h, "stack_frac", <<rune1, rune2>>) # NoError
    THEN Throw(h, TypeError("stack_frac"))
    ELSE IF ~(RLeq(Zero, frac) /\ RLeq(frac, One))
    THEN Throw(h, RangeError("stack_frac"))
    ELSE Bind(scale_independent(h, One, frac, rune1), LAMBDA s1 :
         Bind(translate(s1.heap, Zero, RNeg(RSub(One, frac)), s1.id), LAMBDA upper :
         Bind(scale_independent(upper.heap, One, RSub(One, frac), rune2), LAMBDA s2 :
         Bind(translate(s2.heap, Zero, RSub(One, frac), s2.id), LAMBDA lower :
             Alloc(lower.heap, RuneOf("", <<upper.id, lower.id>>, mat4_create, "none"))))))

\* stack_frac(frac, rune1, rune2): rune1 scaled to frac of the height and
\* moved up, rune2 scaled to the rest and moved down
stack_frac(h, frac, rune1, rune2) ==
    IF throwIfNotRune(h, "stack_frac", <<rune1, rune2>>) # NoError
    THEN Throw(h, TypeError("stack_frac"))
    ELSE IF ~(RLeq(Zero, frac) /\ RLeq(frac, One))
    THEN Throw(h, RangeError("stack_frac"))
    ELSE Bind(scale_independent(h, One, frac, rune1), LAMBDA s1 :
         Bind(translate(s1.heap, Zero, RNeg(RSub(One, frac)), s1.id), LAMBDA upper :
         Bind(scale_independent(upper.heap, One, RSub(One, frac), rune2), LAMBDA s2 :
         Bind(translate(s2.heap, Zero, frac, s2.id), LAMBDA lower :
             Alloc(lower.heap, RuneOf("", <<upper.id, lower.id>>, mat4_create, "none"))))))

\* stack(rune1, rune2)
stack(h, rune1, rune2) ==
    IF throwIfNotRune(h, "stack", <<rune1, rune2>>) # NoError
    THEN Throw(h, TypeError("stack"))
    ELSE stack_frac(h, Rat(1, 2), rune1, rune2)

\* a stackn that halves the height at every level
RECURSIVE stacknHalves(_, _, _)
stacknHalves(h, n, rune) ==
    IF throwIfNotRune(h, "stackn", <<rune>>) # NoError
    THEN Throw(h, TypeError("stackn"))
    ELSE IF n = 1
    THEN Return(h, rune)
    ELSE Bind(stacknHalves(h, n - 1, rune), LAMBDA rest :
             stack_frac(rest.heap, Rat(1, 2), rune, rest.id))

\* stackn(n, rune), for an integer n >= 1 (the recursion does not end for
\* another n)
RECURSIVE stackn(_, _, _)
stackn(h, n, rune) ==
    IF throwIfNotRune(h, "stackn", <<rune>>) # NoError
    THEN Throw(h, TypeError("stackn"))
    ELSE IF n = 1
    THEN Return(h, rune)
    ELSE Bind(stackn(h, n - 1, rune), LAMBDA rest :
             stack_frac(rest.heap, Rat(1, n), rune, rest.id))

\* quarter_turn_right(rune), quarter_turn_left(rune), turn_upside_down(rune)
quarter_turn_right(h, rune) ==
    IF throwIfNotRune(h, "quarter_turn_right", <<rune>>) # NoError
    THEN Throw(h, TypeError("quarter_turn_right"))
    ELSE rotate(h, -1, rune)

quarter_turn_left(h, rune) ==
    IF throwIfNotRune(h, "quarter_turn_left", <<rune>>) # NoError
    THEN Throw(h, TypeError("quarter_turn_left"))
    ELSE rotate(h, 1, rune)

turn_upside_down(h, rune) ==
    IF throwIfNotRune(h, "turn_upside_down", <<rune>>) # NoError
    THEN Throw(h, TypeError("turn_upside_down"))
    ELSE rotate(h, 2, rune)

\* beside_frac(frac, rune1, rune2): rune1 scaled to frac of the width and
\* moved left, rune2 scaled to the rest and moved right
beside_frac(h, frac, rune1, rune2) ==
    IF throwIfNotRune(h, "beside_frac", <<rune1, rune2>>) # NoError
    THEN Throw(h, TypeError("beside_frac"))
    ELSE IF ~(RLeq(Zero, frac) /\ RLeq(frac, One))
    THEN Throw(h, RangeError("beside_frac"))
    ELSE Bind(scale_independent(h, frac, One, rune1), LAMBDA s1 :
         Bind(translate(s1.heap, RNeg(RSub(One, frac)), Zero, s1.id), LAMBDA left :
         Bind(scale_independent(left.heap, RSub(One, frac), One, rune2), LAMBDA s2 :
         Bind(translate(s2.heap, frac, Zero, s2.id), LAMBDA right :
             Alloc(right.heap, RuneOf("", <<left.id, right.id>>, mat4_create, "none"))))))

\* beside(rune1, rune2)
beside(h, rune1, rune2) ==
    IF throwIfNotRune(h, "beside", <<rune1, rune2>>) # NoError
    THEN Throw(h, TypeError("beside"))
    ELSE beside_frac(h, Rat(1, 2), rune1, rune2)

\* flip_vert(rune), flip_horiz(rune)
flip_vert(h, rune) ==
    IF throwIfNotRune(h, "flip_vert", <<rune>>) # NoError
    THEN Throw(h, TypeError("flip_vert"))
    ELSE scale_independent(h, One, RNeg(One), rune)

flip_horiz(h, rune) ==
    IF throwIfNotRune(h, "flip_horiz", <<rune>>) # NoError
    THEN Throw(h, TypeError("flip_horiz"))
    ELSE scale_independent(h, RNeg(One), One, rune)

\* a make_cross whose bottom row is in the other order
make_crossSwapped(h, rune) ==
    IF throwIfNotRune(h, "make_cross", <<rune>>) # NoError
    THEN Throw(h, TypeError("make_cross"))
    ELSE Bind(quarter_turn_right(h, rune), LAMBDA a :
         Bind(rotate(a.heap, 2, rune), LAMBDA b :
         Bind(beside(b.heap, a.id, b.id), LAMBDA top :
         Bind(rotate(top.heap, 1, rune), LAMBDA c :
         Bind(beside(c.heap, c.id, rune), LAMBDA bottom :
             stack(bottom.heap, top.id, bottom.id))))))

\* make_cross(rune): stack(beside(quarter_turn_right(rune), rotate(PI, rune)),
\*                         beside(rune, rotate(PI / 2, rune)))
make_cross(h, rune) ==
    IF throwIfNotRune(h, "make_cross", <<rune>>) # NoError
    THEN Throw(h, TypeError("make_cross"))
    ELSE Bind(quarter_turn_right(h, rune), LAMBDA a :
         Bind(rotate(a.heap, 2, rune), LAMBDA b :
         Bind(beside(b.heap, a.id, b.id), LAMBDA top :
         Bind(rotate(top.heap, 1, rune), LAMBDA c :
         Bind(beside(c.heap, rune, c.id), LAMBDA bottom :
             stack(bottom.heap, top.id, bottom.id))))))

\* the functions a caller passes to repeat_pattern as pattern
Patterns == {"quarter_turn_right", "make_cross"}

\* pattern(value)
ApplyPattern(h, pattern, value) ==
    IF pattern = "make_cross" THEN make_cross(h, value) ELSE quarter_turn_right(h, value)

\* the outcome of a call together with the number of calls of pattern made
Counted(result, calls) ==
    Bind(result, LAMBDA r : [heap |-> r.heap, id |-> r.id, error |-> r.error, calls |-> calls])

\* a repeat_pattern that applies pattern once more than asked
RECURSIVE repeat_patternOnceMore(_, _, _, _)
repeat_patternOnceMore(h, n, pattern, initial) ==
    IF n = 0
    THEN Counted(ApplyPattern(h, pattern, initial), 1)
    ELSE Bind(repeat_patternOnceMore(h, n - 1, pattern, initial), LAMBDA inner :
             IF inner.error # NoError THEN inner
             ELSE Counted(ApplyPattern(inner.heap, pattern, inner.id), inner.calls + 1))

\* repeat_pattern(n, pattern, initial), for an integer n >= 0 (the recursion
\* does not end for another n); an error thrown by pattern propagates
RECURSIVE repeat_pattern(_, _, _, _)
repeat_pattern(h, n, pattern, initial) ==
    IF n = 0
    THEN Counted(Return(h, initial), 0)
    ELSE Bind(repeat_pattern(h, n - 1, pattern, initial), LAMBDA inner :
             IF inner.error # NoError THEN inner
             ELSE Counted(ApplyPattern(inner.heap, pattern, inner.id), inner.calls + 1))

\* const minFrac = 0.000001; const maxFrac = 1 - minFrac
minFrac == Rat(1, 1000000)
maxFrac == RSub(One, minFrac)

\* an overlay_frac that uses frac as it is given
overlay_fracUnclamped(h, frac, rune1, rune2) ==
    IF throwIfNotRune(h, "overlay_frac", <<rune1, rune2>>) # NoError
    THEN Throw(h, TypeError("overlay_frac"))
    ELSE IF ~(RLeq(Zero, frac) /\ RLeq(frac, One))
    THEN Throw(h, RangeError("overlay_frac"))
    ELSE Bind(frac, LAMBDA useFrac :
         LET frontMat == mat4_scale(mat4_create, One, One, useFrac)
             backMat == mat4_scale(mat4_translate(mat4_create, Zero, Zero, RNeg(useFrac)),
                                   One, One, RSub(One, useFrac))
         IN Bind(Alloc(h, RuneOf("", <<rune1>>, frontMat, "none")), LAMBDA front :
            Bind(Alloc(front.heap, RuneOf("", <<rune2>>, backMat, "none")), LAMBDA back :
                Alloc(back.heap, RuneOf("", <<front.id, back.id>>, mat4_create, "none")))))

\* overlay_frac(frac, rune1, rune2): front wrapper, back wrapper, and a
\* root listing the front before the back
overlay_frac(h, frac, rune1, rune2) ==
    IF throwIfNotRune(h, "overlay_frac", <<rune1, rune2>>) # NoError
    THEN Throw(h, TypeError("overlay_frac"))
    ELSE IF ~(RLeq(Zero, frac) /\ RLeq(frac, One))
    THEN Throw(h, RangeError("overlay_frac"))
    ELSE Bind(IF RLess(frac, minFrac) THEN minFrac
              ELSE IF RLess(maxFrac, frac) THEN maxFrac ELSE frac, LAMBDA useFrac :
         LET frontMat == mat4_scale(mat4_create, One, One, useFrac)
             backMat == mat4_scale(mat4_translate(mat4_create, Zero, Zero, RNeg(useFrac)),
                                   One, One, RSub(One, useFrac))
         IN Bind(Alloc(h, RuneOf("", <<rune1>>, frontMat, "none")), LAMBDA front :
            Bind(Alloc(front.heap, RuneOf("", <<rune2>>, backMat, "none")), LAMBDA back :
                Alloc(back.heap, RuneOf("", <<front.id, back.id>>, mat4_create, "none")))))

\* overlay(rune1, rune2)
overlay(h, rune1, rune2) ==
    IF throwIfNotRune(h, "overlay", <<rune1, rune2>>) # NoError
    THEN Throw(h, TypeError("overlay"))
    ELSE overlay_frac(h, Rat(1, 2), rune1, rune2)

\* color(rune, r, g, b) with r, g, b in {0, 1}: a wrapper carrying the
\* colour [r, g, b, 1], named by its components
color(h, rune, r, g, b) ==
    IF throwIfNotRune(h, "color", <<rune>>) # NoError
    THEN Throw(h, TypeError("color"))
    ELSE Alloc(h, RuneOf("", <<rune>>, mat4_create,
                         <<"black", "blue", "green", "cyan", "red", "magenta",
                           "yellow", "white">>[4 * r + 2 * g + b + 1]))

\* the colours random_color draws from
colorPalette == {"red", "blue"}

\* random_color(rune), randomColor being the colour Math.random() selects
random_color(h, rune, randomColor) ==
    IF throwIfNotRune(h, "random_color", <<rune>>) # NoError
    THEN Throw(h, TypeError("random_color"))
    ELSE Alloc(h, RuneOf("", <<rune>>, mat4_create, randomColor))

\* addColorFromHex(rune, hex): a wrapper carrying the colour
addColorFromHex(h, rune, hex) == Alloc(h, RuneOf("", <<rune>>, mat4_create, hex))

\* the named colours: red(rune), black(rune), white(rune)
red(h, rune) ==
    IF throwIfNotRune(h, "red", <<rune>>) # NoError
    THEN Throw(h, TypeError("red"))
    ELSE addColorFromHex(h, rune, "red")

black(h, rune) ==
    IF throwIfNotRune(h, "black", <<rune>>) # NoError
    THEN Throw(h, TypeError("black"))
    ELSE addColorFromHex(h, rune, "black")

white(h, rune) ==
    IF throwIfNotRune(h, "white", <<rune>>) # NoError
    THEN Throw(h, TypeError("white"))
    ELSE addColorFromHex(h, rune, "white")

\* One resolved primitive of flatten's result
DrawnPrimitive(vertices, transformMatrix, colors, texture, hollusionDistance) ==
    [vertices |-> vertices, transformMatrix |-> transformMatrix, colors |-> colors,
     texture |-> texture, hollusionDistance |-> hollusionDistance]

\* flatten: depth-first, children in declaration order; the transform of a
\* node is multiplied on the right of the accumulated one; colour and
\* texture inherited from the nearest ancestor that sets one (black when
\* no colour is set); the hollusion distance that of the root the traversal
\* started from
RECURSIVE FlattenFrom(_, _, _, _, _, _)
RECURSIVE FlattenAll(_, _, _, _, _, _)
FlattenFrom(h, id, transform, inheritedColor, inheritedTexture, dist) ==
    Bind(mat4_multiply(transform, h[id].transformMatrix), LAMBDA m :
        LET node == h[id]
            c == IF node.colors # "none" THEN node.colors ELSE inheritedColor
            t == IF node.texture # "none" THEN node.texture ELSE inheritedTexture
        IN IF node.subRunes = <<>>
           THEN << DrawnPrimitive(node.vertices, m, IF c = "none" THEN "black" ELSE c, t, dist) >>
           ELSE FlattenAll(h, node.subRunes, m, c, t, dist))
FlattenAll(h, ids, transform, inheritedColor, inheritedTexture, dist) ==
    IF ids = <<>> THEN <<>>
    ELSE FlattenFrom(h, Head(ids), transform, inheritedColor, inheritedTexture, dist)
             \o FlattenAll(h, Tail(ids), transform, inheritedColor, inheritedTexture, dist)

flatten(h, id) == FlattenFrom(h, id, mat4_create, "none", "none", h[id].hollusionDistance)

\* white(overlay_frac(0.999999999, blank, scale(2.2, square))).flatten()
BackingFromSquare(h) ==
    Bind(scale(h, Rat(11, 5), square), LAMBDA s :
    Bind(overlay_frac(s.heap, Rat(999999999, 1000000000), blank, s.id), LAMBDA o :
    Bind(white(o.heap, o.id), LAMBDA w :
        flatten(w.heap, w.id))))

\* ... .concat(this.rune.flatten())
RunesToDraw(h, rune) == BackingFromSquare(h) \o flatten(h, rune)

----------------------------------------------------------------------------
(* The WebGL context                                                       *)
(*                                                                         *)
(* framebuffers   the framebuffer objects created and not deleted; the     *)
(*                colour texture of framebuffer f is named f as well       *)
(* images         what has been rendered into each framebuffer's texture   *)
(* framebuffer    the bound framebuffer, 0 for null (the screen)           *)
(* program        the program in use: its kind and its identity            *)
(* uniforms       the sampler uniforms of the program in use (a program    *)
(*                that stops being in use is never used again)             *)
(* activeTexture  the active texture unit; textures: the texture bound to  *)
(*                unit 0 and to unit 1 (0 when none)                       *)
(* screen         what the screen shows                                    *)
(* ops            the calls made on the context by the handler that ran    *)
(*                last                                                     *)

NoImage == [kind |-> "none", runes |-> <<>>, camera |-> 0, tint |-> "none",
            sources |-> <<>>, background |-> "none"]

NoUniforms == [u_sampler_red |-> 0, u_sampler_cyan |-> 0, uTexture |-> 0]

NoProgram == [kind |-> "none", id |-> 0]

InitGl ==
    [framebuffers |-> {}, images |-> <<>>, nextFramebuffer |-> 1,
     framebuffer |-> 0, program |-> NoProgram, nextProgram |-> 1,
     uniforms |-> NoUniforms, activeTexture |-> 0, textures |-> <<0, 0>>,
     clearColor |-> "transparent", screen |-> NoImage, error |-> FALSE,
     ops |-> <<>>]

Op(name, arg) == [op |-> name, arg |-> arg]

Logged(g, name, arg) == [g EXCEPT !.ops = Append(@, Op(name, arg))]

\* the image a draw call or a clear leaves in the bound target
WriteTarget(g, image) ==
    IF g.framebuffer = 0
    THEN [g EXCEPT !.screen = image]
    ELSE [g EXCEPT !.images[g.framebuffer] = image]

TargetImage(g) == IF g.framebuffer = 0 THEN g.screen ELSE g.images[g.framebuffer]

\* initFramebufferObject(gl): a fresh framebuffer with its own texture
initFramebufferObject(g) ==
    LET fb == g.nextFramebuffer
    IN [gl |-> Logged([g EXCEPT !.framebuffers = @ \cup {fb},
                                !.images = Append(@, NoImage),
                                !.nextFramebuffer = fb + 1],
                      "createFramebuffer", fb),
        fb |-> fb]

\* what a primitive contributes to a rendered image: its geometry and its
\* resolved colour (its hollusion distance is not drawn)
Rendered(runes) == [i \in DOMAIN runes |-> <<runes[i].vertices, runes[i].colors>>]

\* drawRunesToFrameBuffer(gl, runes, cameraMatrix, colorFilter, framebuffer, true):
\* binds the target and the scene program and draws every primitive
drawRunesToFrameBuffer(g, runes, camera, tint, fb) ==
    LET bound == [g EXCEPT !.framebuffer = fb,
                           !.program = [kind |-> "scene", id |-> 0],
                           !.uniforms = NoUniforms]
        image == [kind |-> "scene", runes |-> Rendered(runes), camera |-> camera,
                  tint |-> tint, sources |-> <<>>, background |-> "none"]
    IN Logged(WriteTarget(bound, image), "drawRunes", fb)

\* gl.bindFramebuffer(gl.FRAMEBUFFER, fb)
bindFramebuffer(g, fb) == Logged([g EXCEPT !.framebuffer = fb], "bindFramebuffer", fb)

\* initShaderProgram(gl, vertexShader, fragmentShader) followed by gl.useProgram
useNewProgram(g, kind) ==
    Logged([g EXCEPT !.program = [kind |-> kind, id |-> g.nextProgram],
                     !.nextProgram = @ + 1,
                     !.uniforms = NoUniforms],
           "useProgram", g.nextProgram)

\* gl.getUniformLocation(program, name)
UniformLocation(program, name) == [program |-> program.id, name |-> name]

\* gl.activeTexture(gl.TEXTUREn)
activeTexture(g, unit) == [g EXCEPT !.activeTexture = unit]

\* gl.bindTexture(gl.TEXTURE_2D, texture)
bindTexture(g, texture) ==
    Logged([g EXCEPT !.textures[g.activeTexture + 1] = texture], "bindTexture", texture)

\* gl.uniform1i(location, value): sets a uniform of the program in use;
\* INVALID_OPERATION (no effect) when the location is another program's
uniform1i(g, location, value) ==
    IF location.program = g.program.id
    THEN [g EXCEPT !.uniforms[location.name] = value]
    ELSE [g EXCEPT !.error = TRUE]

\* gl.clearColor(1, 1, 1, 1)
clearColor(g, rgba) == [g EXCEPT !.clearColor = rgba]

\* gl.clear(COLOR_BUFFER_BIT | DEPTH_BUFFER_BIT)
clear(g) ==
    Logged(WriteTarget(g, [NoImage EXCEPT !.kind = "clear", !.background = g.clearColor]),
           "clear", g.framebuffer)

\* the texture a sampler uniform reads
Sampled(g, name) == g.textures[g.uniforms[name] + 1]

\* gl.drawArrays(gl.TRIANGLES, 0, 6): the full-screen quad, shaded by the
\* program in use, drawn over the bound target
drawArrays(g) ==
    LET sources ==
            CASE g.program.kind = "anaglyph" ->
                     << Sampled(g, "u_sampler_red"), Sampled(g, "u_sampler_cyan") >>
              [] g.program.kind = "copy" -> << Sampled(g, "uTexture") >>
              [] OTHER -> <<>>
        image == [NoImage EXCEPT !.kind = g.program.kind, !.sources = sources,
                                 !.background = TargetImage(g).background]
    IN Logged(WriteTarget(g, image), "drawArrays", g.framebuffer)

----------------------------------------------------------------------------
(* AnaglyphRune                                                            *)

\* Colour components are counted in halves: 1.0 is ColorOne.
ColorOne == 2
Channel == 0..ColorOne

\* a combining shader that leaves the alpha it computed
anaglyphFragmentShaderKeepAlpha(u_sampler_red, u_sampler_cyan) ==
    [i \in 1..4 |-> u_sampler_red[i] + u_sampler_cyan[i] - ColorOne]

\* anaglyphFragmentShader: gl_FragColor = texture2D(u_sampler_red, ...)
\*     + texture2D(u_sampler_cyan, ...) - 1.0; gl_FragColor.a = 1.0
anaglyphFragmentShader(u_sampler_red, u_sampler_cyan) ==
    [[i \in 1..4 |-> u_sampler_red[i] + u_sampler_cyan[i] - ColorOne]
        EXCEPT ![4] = ColorOne]

\* what the canvas's colour buffer stores of a fragment colour: every
\* component clamped to [0, 1]
Stored(fragColor) ==
    [i \in 1..4 |-> IF fragColor[i] < 0 THEN 0
                    ELSE IF fragColor[i] > ColorOne THEN ColorOne ELSE fragColor[i]]

\* an AnaglyphRune.draw that points both samplers at texture unit 0
anaglyphDrawOneUnit(g, runes) ==
    LET left == initFramebufferObject(g)
        right == initFramebufferObject(left.gl)
        g1 == drawRunesToFrameBuffer(right.gl, runes, -halfEyeDistance, "red", left.fb)
        g2 == drawRunesToFrameBuffer(g1, runes, halfEyeDistance, "cyan", right.fb)
        g3 == useNewProgram(bindFramebuffer(g2, 0), "anaglyph")
        reduPt == UniformLocation(g3.program, "u_sampler_red")
        cyanuPt == UniformLocation(g3.program, "u_sampler_cyan")
        g4 == uniform1i(bindTexture(activeTexture(g3, 0), left.fb), cyanuPt, 0)
        g5 == uniform1i(bindTexture(activeTexture(g4, 1), right.fb), reduPt, 0)
    IN drawArrays(g5)

\* AnaglyphRune.draw from the creation of the two framebuffers on
anaglyphDraw(g, runes) ==
    LET left == initFramebufferObject(g)
        right == initFramebufferObject(left.gl)
        leftBuffer == left.fb
        rightBuffer == right.fb
        g1 == drawRunesToFrameBuffer(right.gl, runes, -halfEyeDistance, "red", leftBuffer)
        g2 == drawRunesToFrameBuffer(g1, runes, halfEyeDistance, "cyan", rightBuffer)
        g3 == useNewProgram(bindFramebuffer(g2, 0), "anaglyph")
        reduPt == UniformLocation(g3.program, "u_sampler_red")
        cyanuPt == UniformLocation(g3.program, "u_sampler_cyan")
        g4 == uniform1i(bindTexture(activeTexture(g3, 0), leftBuffer), cyanuPt, 0)
        g5 == uniform1i(bindTexture(activeTexture(g4, 1), rightBuffer), reduPt, 1)
    IN drawArrays(g5)

----------------------------------------------------------------------------
(* HollusionRune                                                           *)

\* a sample time that is not folded around the half-period
UnfoldedTime(framePos) == JsRem(framePos * (period \div frameCount), period)

\* let xshift = (framePos * (period / frameCount)) % period;
\* if (xshift > period / 2) xshift = period - xshift;
FoldedTime(framePos) ==
    LET raw == JsRem(framePos * (period \div frameCount), period)
    IN IF 2 * raw > period THEN period - raw ELSE raw

\* xshift = xshiftMax * (2 * ((2 * xshift) / period) - 1): the camera
\* x-offset of frame framePos (numerator over period)
XShift(framePos, xshiftMax) == xshiftMax * (4 * FoldedTime(framePos) - period)

\* renderFrame(framePos): one baked frame in its own framebuffer
renderFrame(g, runes, xshiftMax, framePos) ==
    LET new == initFramebufferObject(g)
    IN [gl |-> drawRunesToFrameBuffer(new.gl, runes, XShift(framePos, xshiftMax),
                                      "white", new.fb),
        fb |-> new.fb]

\* a bake loop that puts each new frame in front of the earlier ones
RECURSIVE bakeUnshift(_, _, _, _, _)
bakeUnshift(g, runes, xshiftMax, frameBuffer, i) ==
    IF i < frameCount /\ g.nextFramebuffer > 0
    THEN LET frame == renderFrame(g, runes, xshiftMax, i)
         IN bakeUnshift(frame.gl, runes, xshiftMax, <<frame.fb>> \o frameBuffer, i + 1)
    ELSE [gl |-> g, frameBuffer |-> frameBuffer]

\* for (let i = 0; i < frameCount; i += 1) frameBuffer.push(renderFrame(i))
\* (the conjunct on g is always true: it makes each iteration evaluate its
\* context before the next one starts, as the loop does)
RECURSIVE bakeFrom(_, _, _, _, _)
bakeFrom(g, runes, xshiftMax, frameBuffer, i) ==
    IF i < frameCount /\ g.nextFramebuffer > 0
    THEN LET frame == renderFrame(g, runes, xshiftMax, i)
         IN bakeFrom(frame.gl, runes, xshiftMax, Append(frameBuffer, frame.fb), i + 1)
    ELSE [gl |-> g, frameBuffer |-> frameBuffer]

\* const xshiftMax = runes[0].hollusionDistance
xshiftMaxOf(runes) == runes[1].hollusionDistance

\* HollusionRune.draw: the bake, then the set-up of the copy program; the
\* result is the context and the closure of the returned callback
hollusionDraw(g, runes) ==
    LET xshiftMax == xshiftMaxOf(runes)
        baked == bakeFrom(g, runes, xshiftMax, <<>>, 0)
        g1 == useNewProgram(baked.gl, "copy")
        texturePt == UniformLocation(g1.program, "uTexture")
        g2 == bindFramebuffer(g1, 0)
    IN [gl |-> g2,
        closure |-> [frameBuffer |-> baked.frameBuffer, texturePt |-> texturePt,
                     xshiftMax |-> xshiftMax, lastTime |-> 0]]

\* a throttle that also drops the call that comes exactly one frame later
throttledInclusive(timeInMs, lastTime) == timeInMs - lastTime <= period \div frameCount

\* a throttle on the distance between the two times, whichever came first
throttledEitherWay(timeInMs, lastTime) == Abs(timeInMs - lastTime) < period \div frameCount

\* if (timeInMs - lastTime < period / frameCount) return;
throttled(timeInMs, lastTime) == timeInMs - lastTime < period \div frameCount

\* a frame index taken from the time itself, not from the frame number
framePosNoDivision(timeInMs) == JsRem(timeInMs, frameCount)

\* a frame index that is not wrapped to the frame count
framePosNoWrap(timeInMs) == Floor(timeInMs, period \div frameCount)

\* Math.floor(timeInMs / (period / frameCount)) % frameCount
framePosAt(timeInMs) == JsRem(Floor(timeInMs, period \div frameCount), frameCount)

\* render(timeInMs), the playback callback: the context and the closure
\* after the call, and whether it threw (frameBuffer[framePos] undefined)
render(g, closure, timeInMs) ==
    IF throttled(timeInMs, closure.lastTime)
    THEN [gl |-> g, closure |-> closure, threw |-> FALSE]
    ELSE LET framePos == framePosAt(timeInMs)
             after == [closure EXCEPT !.lastTime = timeInMs]
             g1 == clear(clearColor(g, "white"))
         IN IF framePos + 1 \notin DOMAIN closure.frameBuffer
            THEN [gl |-> g1, closure |-> after, threw |-> TRUE]
            ELSE LET fbObject == closure.frameBuffer[framePos + 1]
                     g2 == bindTexture(activeTexture(g1, 0), fbObject)
                     g3 == uniform1i(g2, closure.texturePt, 0)
                 IN [gl |-> drawArrays(g3), closure |-> after, threw |-> FALSE]

----------------------------------------------------------------------------
(* State and operations                                                    *)

NoCall == [name |-> "none", object |-> 0, session |-> 0, threw |-> FALSE, timeInMs |-> 0]

NoRamp == [xshiftMax |-> 0, raws |-> <<>>, shifts |-> <<>>]

NoClock == [timeInMs |-> 0, framePos |-> -1, framePosNextPeriod |-> -1]

NoCombinator ==
    [name |-> "none", nums |-> <<>>, n |-> 0, pattern |-> "", runes |-> <<>>,
     value |-> NotARune, error |-> NoError, calls |-> 0, allocated |-> 0, count |-> 0]

NoPixel ==
    [left |-> <<0, 0, 0, 0>>, right |-> <<0, 0, 0, 0>>, drawn |-> FALSE,
     out |-> <<0, 0, 0, 0>>, outSwapped |-> <<0, 0, 0, 0>>]

NoSoundCall ==
    [name |-> "none", given |-> <<>>, value |-> [type |-> "undefined"], error |-> "",
     sent |-> 0, count |-> 0]

\* the amplitudes of the camera-ramp specification
Magnitudes == 1..MaxMagnitude

\* the magnitudes a caller passes to the HollusionRune constructor: the
\* default distance and another one
DeclaredMagnitudes == {DefaultHollusionDistance, DefaultHollusionDistance + 1}

\* the Runes a caller hands to a constructor
UserRunes == {square}

\* the times the host's display-refresh driver passes to a callback
FrameMs == period \div frameCount
Ticks == {1}
Times ==
    {-1} \cup { c * period + k * FrameMs + r :
                c \in {0, 1}, k \in Ticks, r \in {0, FrameMs - 1} }

Init ==
    /\ heap = InitHeap
    /\ drawnRunes = <<>>
    /\ sessions = <<>>
    /\ gl = InitGl
    /\ lastCall = NoCall
    /\ held = UserRunes
    /\ call = NoCombinator
    /\ pixel = NoPixel
    /\ sounds = {}
    /\ host = <<>>
    /\ soundCall = NoSoundCall
    /\ ramp = NoRamp
    /\ clock = NoClock

Started(g) == [g EXCEPT !.ops = <<>>]

\* the number of AnaglyphRune.draw calls made so far.  An object is drawn
\* once: it has no state of its own besides its Rune reference, so a second
\* draw of it is the draw of another object made from the same Rune.
AnaglyphDraws ==
    Cardinality({d \in DOMAIN drawnRunes :
                    drawnRunes[d].kind = "anaglyph" /\ drawnRunes[d].draws > 0})

\* new AnaglyphRune(rune)
AnaglyphNew(rune) ==
    /\ Len(drawnRunes) < MaxDrawn
    /\ isRune(heap, rune)
    /\ drawnRunes' = Append(drawnRunes, [kind |-> "anaglyph", rune |-> rune,
                                         magnitude |-> 0, draws |-> 0])
    /\ lastCall' = [NoCall EXCEPT !.name = "AnaglyphRune", !.object = Len(drawnRunes) + 1]
    /\ gl' = Started(gl)
    /\ UNCHANGED <<heap, sessions, probeVars>>

\* new HollusionRune(rune, magnitude): this.rune.hollusionDistance = magnitude
HollusionNew(rune, magnitude) ==
    /\ Len(drawnRunes) < MaxDrawn
    /\ isRune(heap, rune)
    /\ drawnRunes' = Append(drawnRunes, [kind |-> "hollusion", rune |-> rune,
                                         magnitude |-> magnitude, draws |-> 0])
    /\ heap' = [heap EXCEPT ![rune].hollusionDistance = magnitude]
    /\ lastCall' = [NoCall EXCEPT !.name = "HollusionRune", !.object = Len(drawnRunes) + 1]
    /\ gl' = Started(gl)
    /\ UNCHANGED <<sessions, probeVars>>

\* anaglyphRune.draw(canvas)
AnaglyphDraw(d) ==
    /\ drawnRunes[d].kind = "anaglyph"
    /\ drawnRunes[d].draws = 0
    /\ AnaglyphDraws < MaxAnaglyphDraws
    /\ \E runes \in {RunesToDraw(heap, drawnRunes[d].rune)} :
           gl' = anaglyphDraw(Started(gl), runes)
    /\ drawnRunes' = [drawnRunes EXCEPT ![d].draws = @ + 1]
    /\ lastCall' = [NoCall EXCEPT !.name = "AnaglyphRune.draw", !.object = d]
    /\ UNCHANGED <<heap, sessions, probeVars>>

\* hollusionRune.draw(canvas): returns the playback callback
HollusionDraw(d) ==
    /\ drawnRunes[d].kind = "hollusion"
    /\ drawnRunes[d].draws = 0
    /\ Len(sessions) < MaxSessions
    /\ \E runes \in {RunesToDraw(heap, drawnRunes[d].rune)} :
       LET drawn == hollusionDraw(Started(gl), runes)
       IN /\ gl' = drawn.gl
          /\ sessions' = Append(sessions, [owner |-> d, closure |-> drawn.closure,
                                           live |-> TRUE])
    /\ drawnRunes' = [drawnRunes EXCEPT ![d].draws = @ + 1]
    /\ lastCall' = [NoCall EXCEPT !.name = "HollusionRune.draw", !.object = d,
                                  !.session = Len(sessions) + 1]
    /\ UNCHANGED <<heap, probeVars>>

\* the host invokes the callback of session s with timeInMs
HostInvoke(s, timeInMs) ==
    /\ sessions[s].live
    /\ LET done == render(Started(gl), sessions[s].closure, timeInMs)
       IN /\ gl' = done.gl
          /\ sessions' = [sessions EXCEPT ![s].closure = done.closure]
          /\ lastCall' = [name |-> "render", object |-> sessions[s].owner,
                          session |-> s,
                          threw |-> done.threw, timeInMs |-> timeInMs]
    /\ UNCHANGED <<heap, drawnRunes, probeVars>>

\* the host ceases to invoke the callback of session s and drops it: the
\* playback session ends
HostDrop(s) ==
    /\ sessions[s].live
    /\ sessions' = [sessions EXCEPT ![s].live = FALSE]
    /\ lastCall' = [NoCall EXCEPT !.name = "drop", !.session = s]
    /\ gl' = Started(gl)
    /\ UNCHANGED <<heap, drawnRunes, probeVars>>

Next ==
    \/ \E rune \in UserRunes : AnaglyphNew(rune)
    \/ \E rune \in UserRunes, magnitude \in DeclaredMagnitudes : HollusionNew(rune, magnitude)
    \/ \E d \in DOMAIN drawnRunes : AnaglyphDraw(d)
    \/ \E d \in DOMAIN drawnRunes : HollusionDraw(d)
    \/ \E s \in DOMAIN sessions, timeInMs \in Times : HostInvoke(s, timeInMs)

Spec == Init /\ [][Next]_vars

\* the same, with hosts that end playback sessions
NextSession ==
    \/ Next
    \/ \E s \in DOMAIN sessions : HostDrop(s)

SpecSession == Init /\ [][NextSession]_vars

----------------------------------------------------------------------------
(* Scenes that a program has built with overlay_frac and then hands to the *)
(* constructors                                                            *)

\* the fractions the program passes to overlay_frac
SceneFracs == {Rat(1, 4), Rat(1, 2), One}

\* the scenes: the square, an overlay of two squares, and a square over
\* such an overlay
Scenes ==
    LET flat == {overlay_frac(InitHeap, frac, square, square) : frac \in SceneFracs}
        nested == {overlay_frac(inner.heap, Rat(1, 4), square, inner.id) : inner \in flat}
    IN {Return(InitHeap, square)} \cup flat \cup nested

SceneInit ==
    /\ \E scene \in Scenes :
          /\ heap = scene.heap
          /\ held = {scene.id}
    /\ drawnRunes = <<>>
    /\ sessions = <<>>
    /\ gl = InitGl
    /\ lastCall = NoCall
    /\ call = NoCombinator
    /\ pixel = NoPixel
    /\ sounds = {}
    /\ host = <<>>
    /\ soundCall = NoSoundCall
    /\ ramp = NoRamp
    /\ clock = NoClock

SceneNext ==
    \/ \E rune \in held : AnaglyphNew(rune)
    \/ \E rune \in held, magnitude \in DeclaredMagnitudes : HollusionNew(rune, magnitude)
    \/ \E d \in DOMAIN drawnRunes : AnaglyphDraw(d)
    \/ \E d \in DOMAIN drawnRunes : HollusionDraw(d)

SpecScene == SceneInit /\ [][SceneNext]_vars

----------------------------------------------------------------------------
(* The camera ramp of the bake, sample by sample, for every amplitude      *)

RampInit ==
    /\ heap = InitHeap
    /\ drawnRunes = <<>>
    /\ sessions = <<>>
    /\ gl = InitGl
    /\ lastCall = NoCall
    /\ held = UserRunes
    /\ call = NoCombinator
    /\ pixel = NoPixel
    /\ sounds = {}
    /\ host = <<>>
    /\ soundCall = NoSoundCall
    /\ clock = NoClock
    /\ \E xshiftMax \in Magnitudes : ramp = [NoRamp EXCEPT !.xshiftMax = xshiftMax]

\* the next iteration of the bake loop computes the offset of frame i
RampStep ==
    /\ Len(ramp.shifts) < frameCount
    /\ ramp' = [ramp EXCEPT !.raws = Append(@, FoldedTime(Len(ramp.shifts))),
                            !.shifts = Append(@, XShift(Len(ramp.shifts), ramp.xshiftMax))]
    /\ UNCHANGED <<renderVars, clock, graphVars, pixel, soundVars>>

RampNext == RampStep

SpecRamp == RampInit /\ [][RampNext]_vars

----------------------------------------------------------------------------
(* The frame index of the playback callback, for every time                *)

FrameInit ==
    /\ heap = InitHeap
    /\ drawnRunes = <<>>
    /\ sessions = <<>>
    /\ gl = InitGl
    /\ lastCall = NoCall
    /\ held = UserRunes
    /\ call = NoCombinator
    /\ pixel = NoPixel
    /\ sounds = {}
    /\ host = <<>>
    /\ soundCall = NoSoundCall
    /\ ramp = NoRamp
    /\ \E timeInMs \in 0..MaxTime : clock = [NoClock EXCEPT !.timeInMs = timeInMs]

\* the callback computes the frame index of the time and, one period
\* later, that of the time plus the period
FrameStep ==
    /\ clock.framePos = -1
    /\ clock' = [clock EXCEPT !.framePos = framePosAt(clock.timeInMs),
                              !.framePosNextPeriod = framePosAt(clock.timeInMs + period)]
    /\ UNCHANGED <<renderVars, ramp, graphVars, pixel, soundVars>>

FrameNext == FrameStep

SpecFrame == FrameInit /\ [][FrameNext]_vars

----------------------------------------------------------------------------
(* The combinators, called by a program that holds the values returned to  *)
(* it and passes them, or a value that is not a Rune, to its next calls    *)

\* the arguments a program passes where a Rune is expected
Values == held \cup {NotARune}

\* the numbers a program passes: fractions, scale ratios, offsets, angles
\* (in quarter turns), colour components
Fracs == {Rat(-1, 10), Zero, Rat(1, 4), One, Rat(11, 10)}
OverlayFracs == Fracs \cup {minFrac}
Ratios == {Rat(1, 2), Rat(2, 1)}
Offsets == {Rat(-1, 2), Rat(1, 2)}
Angles == {-1, 2}
Components == {0, 1}

\* a combinator has been called: the heap after it, what it returned or
\* threw, and the Runes the program holds from now on
Called(name, nums, n, pattern, runes, result, calls) ==
    /\ call.count < MaxCalls
    /\ \E done \in {result} :
          /\ heap' = done.heap
          /\ held' = IF done.error = NoError /\ isRune(done.heap, done.id)
                     THEN held \cup {done.id} ELSE held
          /\ call' = [name |-> name, nums |-> nums, n |-> n, pattern |-> pattern,
                      runes |-> runes, value |-> done.id, error |-> done.error,
                      calls |-> calls, allocated |-> Len(done.heap) - Len(heap),
                      count |-> call.count + 1]
    /\ UNCHANGED <<drawnRunes, sessions, gl, lastCall, ramp, clock, pixel, soundVars>>

CallFromUrl ==
    Called("from_url", <<>>, 0, "", <<>>, from_url(heap, "imageUrl"), 0)

CallScaleIndependent(ratio_x, ratio_y, rune) ==
    Called("scale_independent", <<ratio_x, ratio_y>>, 0, "", <<rune>>,
           scale_independent(heap, ratio_x, ratio_y, rune), 0)

CallScale(ratio, rune) ==
    Called("scale", <<ratio>>, 0, "", <<rune>>, scale(heap, ratio, rune), 0)

CallTranslate(x, y, rune) ==
    Called("translate", <<x, y>>, 0, "", <<rune>>, translate(heap, x, y, rune), 0)

CallRotate(rad, rune) ==
    Called("rotate", <<>>, rad, "", <<rune>>, rotate(heap, rad, rune), 0)

CallStackFrac(frac, rune1, rune2) ==
    Called("stack_frac", <<frac>>, 0, "", <<rune1, rune2>>,
           stack_frac(heap, frac, rune1, rune2), 0)

CallStack(rune1, rune2) ==
    Called("stack", <<>>, 0, "", <<rune1, rune2>>, stack(heap, rune1, rune2), 0)

CallStackn(n, rune) ==
    Called("stackn", <<>>, n, "", <<rune>>, stackn(heap, n, rune), 0)

CallQuarterTurnRight(rune) ==
    Called("quarter_turn_right", <<>>, 0, "", <<rune>>, quarter_turn_right(heap, rune), 0)

CallQuarterTurnLeft(rune) ==
    Called("quarter_turn_left", <<>>, 0, "", <<rune>>, quarter_turn_left(heap, rune), 0)

CallTurnUpsideDown(rune) ==
    Called("turn_upside_down", <<>>, 0, "", <<rune>>, turn_upside_down(heap, rune), 0)

CallBesideFrac(frac, rune1, rune2) ==
    Called("beside_frac", <<frac>>, 0, "", <<rune1, rune2>>,
           beside_frac(heap, frac, rune1, rune2), 0)

CallBeside(rune1, rune2) ==
    Called("beside", <<>>, 0, "", <<rune1, rune2>>, beside(heap, rune1, rune2), 0)

CallFlipVert(rune) ==
    Called("flip_vert", <<>>, 0, "", <<rune>>, flip_vert(heap, rune), 0)

CallFlipHoriz(rune) ==
    Called("flip_horiz", <<>>, 0, "", <<rune>>, flip_horiz(heap, rune), 0)

CallMakeCross(rune) ==
    Called("make_cross", <<>>, 0, "", <<rune>>, make_cross(heap, rune), 0)

CallRepeatPattern(n, pattern, initial) ==
    /\ call.count < MaxCalls
    /\ \E result \in {repeat_pattern(heap, n, pattern, initial)} :
        Called("repeat_pattern", <<>>, n, pattern, <<initial>>, result, result.calls)

CallOverlayFrac(frac, rune1, rune2) ==
    Called("overlay_frac", <<frac>>, 0, "", <<rune1, rune2>>,
           overlay_frac(heap, frac, rune1, rune2), 0)

CallOverlay(rune1, rune2) ==
    Called("overlay", <<>>, 0, "", <<rune1, rune2>>, overlay(heap, rune1, rune2), 0)

CallColor(rune, r, g, b) ==
    Called("color", <<Rat(r, 1), Rat(g, 1), Rat(b, 1)>>, 0, "", <<rune>>,
           color(heap, rune, r, g, b), 0)

CallRandomColor(rune, randomColor) ==
    Called("random_color", <<>>, 0, "", <<rune>>, random_color(heap, rune, randomColor), 0)

CallRed(rune) == Called("red", <<>>, 0, "", <<rune>>, red(heap, rune), 0)

CallBlack(rune) == Called("black", <<>>, 0, "", <<rune>>, black(heap, rune), 0)

CallWhite(rune) == Called("white", <<>>, 0, "", <<rune>>, white(heap, rune), 0)

GraphInit ==
    /\ heap = InitHeap
    /\ drawnRunes = <<>>
    /\ sessions = <<>>
    /\ gl = InitGl
    /\ lastCall = NoCall
    /\ ramp = NoRamp
    /\ clock = NoClock
    /\ held = UserRunes
    /\ call = NoCombinator
    /\ pixel = NoPixel
    /\ sounds = {}
    /\ host = <<>>
    /\ soundCall = NoSoundCall

GraphNext ==
    \/ CallFromUrl
    \/ \E ratio_x \in Ratios, ratio_y \in Ratios, rune \in Values :
           CallScaleIndependent(ratio_x, ratio_y, rune)
    \/ \E ratio \in Ratios, rune \in Values : CallScale(ratio, rune)
    \/ \E x \in Offsets, y \in Offsets, rune \in Values : CallTranslate(x, y, rune)
    \/ \E rad \in Angles, rune \in Values : CallRotate(rad, rune)
    \/ \E frac \in Fracs, rune1 \in Values, rune2 \in Values :
           CallStackFrac(frac, rune1, rune2)
    \/ \E rune1 \in Values, rune2 \in Values : CallStack(rune1, rune2)
    \/ \E n \in 1..MaxStackn, rune \in Values : CallStackn(n, rune)
    \/ \E rune \in Values : CallQuarterTurnRight(rune)
    \/ \E rune \in Values : CallQuarterTurnLeft(rune)
    \/ \E rune \in Values : CallTurnUpsideDown(rune)
    \/ \E frac \in Fracs, rune1 \in Values, rune2 \in Values :
           CallBesideFrac(frac, rune1, rune2)
    \/ \E rune1 \in Values, rune2 \in Values : CallBeside(rune1, rune2)
    \/ \E rune \in Values : CallFlipVert(rune)
    \/ \E rune \in Values : CallFlipHoriz(rune)
    \/ \E rune \in Values : CallMakeCross(rune)
    \/ \E n \in 0..MaxRepeat, pattern \in Patterns, initial \in Values :
           CallRepeatPattern(n, pattern, initial)
    \/ \E frac \in OverlayFracs, rune1 \in Values, rune2 \in Values :
           CallOverlayFrac(frac, rune1, rune2)
    \/ \E rune1 \in Values, rune2 \in Values : CallOverlay(rune1, rune2)
    \/ \E rune \in Values, r \in Components, g \in Components, b \in Components :
           CallColor(rune, r, g, b)
    \/ \E rune \in Values, randomColor \in colorPalette : CallRandomColor(rune, randomColor)
    \/ \E rune \in Values : CallRed(rune)
    \/ \E rune \in Values : CallBlack(rune)
    \/ \E rune \in Values : CallWhite(rune)

SpecGraph == GraphInit /\ [][GraphNext]_vars

----------------------------------------------------------------------------
(* The combining pass of AnaglyphRune.draw, pixel by pixel                 *)

\* the samples of the two eye textures at a pixel
Samples == {<<r, g, b, a>> : r \in Channel, g \in Channel, b \in {0, ColorOne},
                             a \in {0, ColorOne}}

PixelInit ==
    /\ heap = InitHeap
    /\ drawnRunes = <<>>
    /\ sessions = <<>>
    /\ gl = InitGl
    /\ lastCall = NoCall
    /\ ramp = NoRamp
    /\ clock = NoClock
    /\ held = UserRunes
    /\ call = NoCombinator
    /\ \E red_ \in Samples, cyan_ \in Samples :
           pixel = [NoPixel EXCEPT !.left = red_, !.right = cyan_]
    /\ sounds = {}
    /\ host = <<>>
    /\ soundCall = NoSoundCall

\* the quad is drawn with the left texture on u_sampler_cyan and the right
\* one on u_sampler_red, as AnaglyphRune.draw binds them, and the other way
\* round
PixelStep ==
    /\ pixel.drawn = FALSE
    /\ pixel' = [pixel EXCEPT
                    !.drawn = TRUE,
                    !.out = Stored(anaglyphFragmentShader(pixel.right, pixel.left)),
                    !.outSwapped = Stored(anaglyphFragmentShader(pixel.left, pixel.right))]
    /\ UNCHANGED <<renderVars, ramp, clock, graphVars, soundVars>>

PixelNext == PixelStep

SpecPixel == PixelInit /\ [][PixelNext]_vars

----------------------------------------------------------------------------
(* The sound module (SoundModulePlugin)                                    *)
(*                                                                         *)
(* A JavaScript value is a record with its type.  A number is an exact     *)
(* rational; NaN, the infinities and the rounding of doubles are not       *)
(* modelled.  A function value is a closure: the code it runs (op) and the *)
(* variables it has captured; Invoke runs it.  A js-slang list is the      *)
(* sequence of its elements.                                               *)

\* const FS = 44100 and const fourier_expansion_level = 5
FS == 44100
fourier_expansion_level == 5

\* p / q, 0/0 standing for the NaN of a division of zero by zero
NotANumber == << 0, 0 >>
RDiv(p, q) ==
    IF q[1] = 0 THEN NotANumber
    ELSE IF q[1] < 0 THEN RMul(p, << -q[2], -q[1] >>)
    ELSE RMul(p, << q[2], q[1] >>)

\* Math.ceil(p)
MathCeil(p) == -((-p[1]) \div p[2])

\* pi is taken as 22/7 where a factor of pi remains after the angles have
\* been counted in turns
Pi == Rat(22, 7)

\* Math.sin of an angle counted in turns: exact at the quarter turns and
\* interpolated linearly between them
MathSin(turns) ==
    LET quarters == RMul(Rat(4, 1), turns)
        lo == quarters[1] \div quarters[2]
    IN RAdd(Sin(lo), RMul(RSub(quarters, Rat(lo, 1)), RSub(Sin(lo + 1), Sin(lo))))

Undefined == [type |-> "undefined"]
Number(value) == [type |-> "number", value |-> value]

\* pair, head, tail, is_pair of js-slang
pair(x, y) == [type |-> "pair", head |-> x, tail |-> y]
head(p) == p.head
tail(p) == p.tail
is_pair(x) == x.type = "pair"

\* the receiver of a method call made on the plugin
This == [type |-> "plugin"]

\* what a call yields: the value it returns, or the error it throws
Returns(value) == [value |-> value, error |-> ""]
Throws(error) == [value |-> Undefined, error |-> error]

\* the functions a program writes itself and passes as waves:
\* t => value and t => Math_sin(2 * Math_PI * freq * t)
ConstantWave(value) == [type |-> "function", op |-> "constant", value |-> value]
SineWave(freq) == [type |-> "function", op |-> "sine", freq |-> freq]

\* linear_decay(decay_period)(t)
linear_decay(decay_period, t) ==
    IF RLess(decay_period, t) \/ RLess(t, Zero) THEN Zero
    ELSE RSub(One, RDiv(t, decay_period))

\* the sums of fourier_expansion_square, _triangle and _sawtooth from term i on
RECURSIVE fourier_expansion_square(_, _, _)
fourier_expansion_square(f, t, i) ==
    IF i > fourier_expansion_level THEN Zero
    ELSE RAdd(RDiv(MathSin(RMul(Rat(2 * i - 1, 1), RMul(f, t))), Rat(2 * i - 1, 1)),
              fourier_expansion_square(f, t, i + 1))

RECURSIVE fourier_expansion_triangle(_, _, _)
fourier_expansion_triangle(freq, t, i) ==
    IF i >= fourier_expansion_level THEN Zero
    ELSE RAdd(RDiv(RMul(Rat(IF i % 2 = 0 THEN 1 ELSE -1, 1),
                        MathSin(RMul(Rat(2 * i + 1, 1), RMul(t, freq)))),
                   Rat((2 * i + 1) * (2 * i + 1), 1)),
              fourier_expansion_triangle(freq, t, i + 1))

RECURSIVE fourier_expansion_sawtooth(_, _, _)
fourier_expansion_sawtooth(freq, t, i) ==
    IF i > fourier_expansion_level THEN Zero
    ELSE RAdd(RDiv(MathSin(RMul(Rat(i, 1), RMul(freq, t))), Rat(i, 1)),
              fourier_expansion_sawtooth(freq, t, i + 1))

\* wave(t): the body of each closure the module creates
RECURSIVE Invoke(_, _)
Invoke(wave, t) ==
    CASE wave.op = "constant" -> wave.value
      [] wave.op = "sine" -> MathSin(RMul(t, wave.freq))
      [] wave.op = "make_sound" ->
            IF RLeq(wave.duration, t) THEN Zero ELSE Invoke(wave.wave, t)
      [] wave.op = "square_sound" ->
            RMul(RDiv(Rat(4, 1), Pi), fourier_expansion_square(wave.freq, t, 1))
      [] wave.op = "triangle_sound" ->
            RMul(RDiv(RDiv(Rat(8, 1), Pi), Pi), fourier_expansion_triangle(wave.freq, t, 0))
      [] wave.op = "sawtooth_sound" ->
            RSub(Rat(1, 2), RMul(RDiv(One, Pi), fourier_expansion_sawtooth(wave.freq, t, 1)))
      [] wave.op = "consec_two" ->
            IF RLess(t, wave.dur1) THEN Invoke(wave.wave1, t)
            ELSE Invoke(wave.wave2, RSub(t, wave.dur1))
      [] wave.op = "simul_two" -> RAdd(Invoke(wave.wave1, t), Invoke(wave.wave2, t))
      [] wave.op = "normalised_wave" -> RDiv(Invoke(wave.wave, t), Rat(wave.len, 1))
      [] wave.op = "adsr" ->
            IF RLess(t, wave.attack_time)
            THEN RMul(Invoke(wave.wave, t), RDiv(t, wave.attack_time))
            ELSE IF RLess(t, RAdd(wave.attack_time, wave.decay_time))
            THEN RMul(RAdd(RMul(RSub(One, wave.sustain_level),
                                linear_decay(wave.decay_time, RSub(t, wave.attack_time))),
                           wave.sustain_level),
                      Invoke(wave.wave, t))
            ELSE IF RLess(t, RSub(wave.duration, wave.release_time))
            THEN RMul(Invoke(wave.wave, t), wave.sustain_level)
            ELSE RMul(RMul(Invoke(wave.wave, t), wave.sustain_level),
                      linear_decay(wave.release_time,
                                   RSub(t, RSub(wave.duration, wave.release_time))))
      [] wave.op = "phase_mod" ->
            MathSin(RAdd(RMul(t, wave.freq),
                         RDiv(RMul(wave.amount, Invoke(wave.modulator, t)),
                              RMul(Rat(2, 1), Pi))))

\* make_sound without the cut at the duration
make_soundUngated(wave, duration) ==
    IF RLess(duration, Zero)
    THEN Throws("Sound duration must be greater than or equal to 0")
    ELSE Returns(pair(wave, Number(duration)))

\* make_sound(wave, duration)
make_sound(wave, duration) ==
    IF RLess(duration, Zero)
    THEN Throws("Sound duration must be greater than or equal to 0")
    ELSE Returns(pair([type |-> "function", op |-> "make_sound", wave |-> wave,
                       duration |-> duration],
                      Number(duration)))

\* a method that reads this.make_sound throws when it is called without a
\* receiver
make_soundOf(this, wave, duration) ==
    IF this = Undefined
    THEN Throws("TypeError: Cannot read properties of undefined (reading 'make_sound')")
    ELSE make_sound(wave, duration)

get_wave(sound) == head(sound)
get_duration(sound) == tail(sound).value

\* is_sound(x)
is_sound(x) ==
    /\ is_pair(x)
    /\ get_wave(x).type = "function"
    /\ tail(x).type = "number"

silence_sound(this, duration) == make_soundOf(this, ConstantWave(Zero), duration)
sine_sound(this, freq, duration) == make_soundOf(this, SineWave(freq), duration)
square_sound(this, f, duration) ==
    make_soundOf(this, [type |-> "function", op |-> "square_sound", freq |-> f], duration)
triangle_sound(this, freq, duration) ==
    make_soundOf(this, [type |-> "function", op |-> "triangle_sound", freq |-> freq], duration)
sawtooth_sound(this, freq, duration) ==
    make_soundOf(this, [type |-> "function", op |-> "sawtooth_sound", freq |-> freq], duration)

\* consec_two(ss1, ss2) of consecutively
consec_two(ss1, ss2) ==
    make_sound([type |-> "function", op |-> "consec_two",
                wave1 |-> get_wave(ss1), wave2 |-> get_wave(ss2),
                dur1 |-> get_duration(ss1)],
               RAdd(get_duration(ss1), get_duration(ss2)))

\* accumulate(consec_two, initial, list_of_sounds): consec_two(first,
\* accumulate(consec_two, initial, rest)), an error ending the fold
RECURSIVE accumulate_consec_two(_, _)
accumulate_consec_two(initial, list_of_sounds) ==
    IF list_of_sounds = <<>> THEN initial
    ELSE Bind(accumulate_consec_two(initial, Tail(list_of_sounds)), LAMBDA rest :
             IF rest.error # "" THEN rest
             ELSE consec_two(Head(list_of_sounds), rest.value))

\* the list in the opposite order
RECURSIVE Reversed(_)
Reversed(list) == IF list = <<>> THEN <<>> ELSE Append(Reversed(Tail(list)), Head(list))

\* consecutively that joins the Sounds from the last one to the first
consecutivelyReversed(this, list_of_sounds) ==
    Bind(silence_sound(this, Zero), LAMBDA silence :
        IF silence.error # "" THEN silence
        ELSE accumulate_consec_two(silence, Reversed(list_of_sounds)))

\* consecutively(list_of_sounds)
consecutively(this, list_of_sounds) ==
    Bind(silence_sound(this, Zero), LAMBDA silence :
        IF silence.error # "" THEN silence
        ELSE accumulate_consec_two(silence, list_of_sounds))

\* simul_two(ss1, ss2) of simultaneously
simul_two(ss1, ss2) ==
    make_sound([type |-> "function", op |-> "simul_two",
                wave1 |-> get_wave(ss1), wave2 |-> get_wave(ss2)],
               IF RLess(get_duration(ss1), get_duration(ss2))
               THEN get_duration(ss2) ELSE get_duration(ss1))

RECURSIVE accumulate_simul_two(_, _)
accumulate_simul_two(initial, list_of_sounds) ==
    IF list_of_sounds = <<>> THEN initial
    ELSE Bind(accumulate_simul_two(initial, Tail(list_of_sounds)), LAMBDA rest :
             IF rest.error # "" THEN rest
             ELSE simul_two(Head(list_of_sounds), rest.value))

\* simultaneously(list_of_sounds)
simultaneously(this, list_of_sounds) ==
    Bind(silence_sound(this, Zero), LAMBDA silence :
        IF silence.error # "" THEN silence
        ELSE Bind(accumulate_simul_two(silence, list_of_sounds), LAMBDA mushed_sounds :
            IF mushed_sounds.error # "" THEN mushed_sounds
            ELSE make_sound([type |-> "function", op |-> "normalised_wave",
                             wave |-> head(mushed_sounds.value),
                             len |-> Len(list_of_sounds)],
                            tail(mushed_sounds.value).value)))

\* adsr(attack_ratio, decay_ratio, sustain_level, release_ratio): the
\* transformer it returns, and that transformer applied to a Sound
adsr(attack_ratio, decay_ratio, sustain_level, release_ratio) ==
    [type |-> "function", op |-> "adsr_transformer",
     attack_ratio |-> attack_ratio, decay_ratio |-> decay_ratio,
     sustain_level |-> sustain_level, release_ratio |-> release_ratio]

\* phase_mod(freq, duration, amount): the transformer it returns
phase_mod(freq, duration, amount) ==
    [type |-> "function", op |-> "phase_mod_transformer",
     freq |-> freq, duration |-> duration, amount |-> amount]

\* transformer(sound) for the transformers of adsr and phase_mod
Transform(transformer, sound) ==
    IF transformer.op = "adsr_transformer"
    THEN make_sound([type |-> "function", op |-> "adsr",
                     wave |-> get_wave(sound),
                     duration |-> get_duration(sound),
                     attack_time |-> RMul(get_duration(sound), transformer.attack_ratio),
                     decay_time |-> RMul(get_duration(sound), transformer.decay_ratio),
                     release_time |-> RMul(get_duration(sound), transformer.release_ratio),
                     sustain_level |-> transformer.sustain_level],
                    get_duration(sound))
    ELSE make_sound([type |-> "function", op |-> "phase_mod",
                     freq |-> transformer.freq, amount |-> transformer.amount,
                     modulator |-> get_wave(sound)],
                    transformer.duration)

\* a Sound producer passed as a value: a method taken off the plugin
\* (this.square_sound), which has no receiver when it is called, or a function
\* of the program that calls the method on the plugin
Method(name) == [type |-> "function", op |-> "method", name |-> name]
Producer(name) == [type |-> "function", op |-> "producer", name |-> name]

\* waveform(frequency, duration)
CallWaveform(waveform, frequency, duration) ==
    LET this == IF waveform.op = "method" THEN Undefined ELSE This
    IN CASE waveform.name = "sine_sound" -> sine_sound(this, frequency, duration)
         [] waveform.name = "square_sound" -> square_sound(this, frequency, duration)
         [] waveform.name = "triangle_sound" -> triangle_sound(this, frequency, duration)
         [] waveform.name = "sawtooth_sound" -> sawtooth_sound(this, frequency, duration)

\* accumulate((x, y) => pair(tail(x)(waveform(base_frequency * head(x),
\* duration)), y), null, zip(envelopes, 1)), from the n-th envelope on: the
\* list of the harmonics, each under its envelope
RECURSIVE accumulate_harmonics(_, _, _, _, _)
accumulate_harmonics(waveform, base_frequency, duration, envelopes, n) ==
    IF envelopes = <<>> THEN Returns(<<>>)
    ELSE Bind(accumulate_harmonics(waveform, base_frequency, duration, Tail(envelopes), n + 1),
              LAMBDA y :
         IF y.error # "" THEN y
         ELSE Bind(CallWaveform(waveform, RMul(base_frequency, Rat(n, 1)), duration),
                   LAMBDA harmonic :
              IF harmonic.error # "" THEN harmonic
              ELSE Bind(Transform(Head(envelopes), harmonic.value), LAMBDA enveloped :
                   IF enveloped.error # "" THEN enveloped
                   ELSE Returns(<< enveloped.value >> \o y.value))))

\* stacking_adsr(waveform, base_frequency, duration, envelopes)
stacking_adsr(this, waveform, base_frequency, duration, envelopes) ==
    Bind(accumulate_harmonics(waveform, base_frequency, duration, envelopes, 1),
         LAMBDA harmonics :
        IF harmonics.error # "" THEN Throws(harmonics.error)
        ELSE simultaneously(this, harmonics.value))

\* midi_note_to_frequency(note) = 440 * 2 ** ((note - 69) / 12), for the
\* notes that are whole octaves from A4
midi_note_to_frequency(note) ==
    LET octaves == (note - 69) \div 12
    IN IF octaves >= 0 THEN Rat(440 * 2 ^ octaves, 1) ELSE Rat(440, 2 ^ (-octaves))

bell(this, note, duration) ==
    stacking_adsr(this, Method("square_sound"), midi_note_to_frequency(note), duration,
        << adsr(Zero, Rat(6, 10), Zero, Rat(5, 100)),
           adsr(Zero, Rat(6618, 10000), Zero, Rat(5, 100)),
           adsr(Zero, Rat(7618, 10000), Zero, Rat(5, 100)),
           adsr(Zero, Rat(9071, 10000), Zero, Rat(5, 100)) >>)

cello(this, note, duration) ==
    stacking_adsr(this, Method("square_sound"), midi_note_to_frequency(note), duration,
        << adsr(Rat(5, 100), Zero, One, Rat(1, 10)),
           adsr(Rat(5, 100), Zero, One, Rat(15, 100)),
           adsr(Zero, Zero, Rat(2, 10), Rat(15, 100)) >>)

piano(this, note, duration) ==
    stacking_adsr(this, Method("triangle_sound"), midi_note_to_frequency(note), duration,
        << adsr(Zero, Rat(515, 1000), Zero, Rat(5, 100)),
           adsr(Zero, Rat(32, 100), Zero, Rat(5, 100)),
           adsr(Zero, Rat(2, 10), Zero, Rat(5, 100)) >>)

trombone(this, note, duration) ==
    stacking_adsr(this, Method("square_sound"), midi_note_to_frequency(note), duration,
        << adsr(Rat(2, 10), Zero, One, Rat(1, 10)),
           adsr(Rat(3236, 10000), Rat(6, 10), Zero, Rat(1, 10)) >>)

violin(this, note, duration) ==
    stacking_adsr(this, Method("sawtooth_sound"), midi_note_to_frequency(note), duration,
        << adsr(Rat(35, 100), Zero, One, Rat(15, 100)),
           adsr(Rat(35, 100), Zero, One, Rat(15, 100)),
           adsr(Rat(45, 100), Zero, One, Rat(15, 100)),
           adsr(Rat(45, 100), Zero, One, Rat(15, 100)) >>)

\* sample without the clamp of the amplitudes
sampleUnclamped(sound, fs) ==
    LET numSamples == MathCeil(RMul(Rat(fs, 1), get_duration(sound)))
    IN [i \in 1..numSamples |-> Invoke(get_wave(sound), Rat(i - 1, fs))]

\* sample(sound, fs): the channel, sample i of the code at index i + 1
sample(sound, fs) ==
    LET numSamples == MathCeil(RMul(Rat(fs, 1), get_duration(sound)))
    IN [i \in 1..numSamples |->
           LET amp == Invoke(get_wave(sound), Rat(i - 1, fs))
           IN IF RLess(One, amp) THEN One
              ELSE IF RLess(amp, RNeg(One)) THEN RNeg(One)
              ELSE amp]

\* this.host.$play(channel, FS): the call as the host receives it
HostPlay(channel, fs) == [name |-> "$play", channel |-> channel, fs |-> fs]

\* play(sound): what it yields, and the calls the host has received after it
play(this, sound, calls) ==
    IF ~is_sound(sound)
    THEN [value |-> Undefined, error |-> "play is expecting sound", host |-> calls]
    ELSE IF RLess(get_duration(sound), Zero)
    THEN [value |-> Undefined, error |-> "play: duration of sound is negative", host |-> calls]
    ELSE IF get_duration(sound) = Zero
    THEN [value |-> sound, error |-> "", host |-> calls]
    ELSE [value |-> sound, error |-> "",
          host |-> Append(calls, HostPlay(sample(sound, FS), FS))]

\* play_wave(wave, duration)
play_wave(this, wave, duration, calls) ==
    Bind(make_soundOf(this, wave, duration), LAMBDA made :
        IF made.error # ""
        THEN [value |-> Undefined, error |-> made.error, host |-> calls]
        ELSE play(this, made.value, calls))

\* readonly exports, and the methods the class defines
exports ==
    << "adsr", "bell", "cello", "consecutively", "get_duration", "get_wave",
       "init_record", "is_sound", "letter_name_to_frequency",
       "letter_name_to_midi_note", "make_sound", "midi_note_to_frequency",
       "noise_sound", "phase_mod", "piano", "play_in_tab", "play", "play_wave",
       "record", "record_for", "sawtooth_sound", "silence_sound", "simultaneously",
       "sine_sound", "square_sound", "stacking_adsr", "stop", "triangle_sound",
       "trombone", "violin" >>

Methods ==
    { "record", "record_for", "make_sound", "get_wave", "get_duration", "is_sound",
      "sample", "play_wave", "play_in_tab", "play", "stop", "noise_sound",
      "silence_sound", "sine_sound", "square_sound", "triangle_sound",
      "sawtooth_sound", "consecutively", "simultaneously", "adsr", "stacking_adsr",
      "phase_mod", "letter_name_to_midi_note", "midi_note_to_frequency",
      "letter_name_to_frequency", "bell", "cello", "piano", "trombone", "violin" }

\* plugin[name]: the method of that name, undefined when the class has none
Property(name) == IF name \in Methods THEN Method(name) ELSE Undefined

----------------------------------------------------------------------------
(* A program using the sound module (sound specification)                  *)

\* how many calls of the sound module a program makes
MaxSoundCalls == 3
\* the longest list of Sounds a program passes
MaxList == 2

\* the arguments a program passes
Durations == {Rat(-1, FS), Zero, Rat(3, 2 * FS), Rat(2, FS)}
SourceDurations == {Zero, Rat(2, FS)}
Waves == {ConstantWave(Rat(2, 1)), ConstantWave(Rat(-3, 2)), SineWave(Rat(FS \div 4, 1))}
Frequencies == {Rat(FS \div 4, 1)}
Notes == {57, 69}
Instruments == {"bell", "cello", "piano", "trombone", "violin"}
Waveforms == {Producer("sine_sound"), Producer("square_sound"), Method("sine_sound")}
Lists == UNION {[1..n -> sounds] : n \in 0..MaxList}

\* values that are not Sounds made by the module: a number, a pair of
\* numbers, and pairs a program builds itself with pair(wave, duration)
RawValues ==
    {Number(One), pair(Number(One), Number(One)),
     pair(ConstantWave(Rat(2, 1)), Number(Rat(-1, FS))),
     pair(ConstantWave(Rat(2, 1)), Number(Rat(3, 2 * FS)))}

\* a js-slang list and a string as the arguments of a call
ListOf(items) == [type |-> "list", items |-> items]
StringOf(text) == [type |-> "string", text |-> text]

\* the call is over: what it was given and what it yielded; a Sound it made
\* is one the program holds from now on
SoundCalled(name, given, result, made) ==
    /\ soundCall' = [name |-> name, given |-> given, value |-> result.value,
                     error |-> result.error, sent |-> 0,
                     count |-> soundCall.count + 1]
    /\ sounds' = IF made /\ result.error = "" THEN sounds \cup {result.value} ELSE sounds
    /\ host' = host
    /\ UNCHANGED <<renderVars, ramp, clock, graphVars, pixel>>

CallMakeSound ==
    /\ soundCall.count < MaxSoundCalls
    /\ \E wave \in Waves, duration \in Durations :
         \E result \in {make_soundOf(This, wave, duration)} :
            SoundCalled("make_sound", << wave, Number(duration) >>, result, TRUE)

CallSilenceSound ==
    /\ soundCall.count < MaxSoundCalls
    /\ \E duration \in SourceDurations :
         \E result \in {silence_sound(This, duration)} :
            SoundCalled("silence_sound", << Number(duration) >>, result, TRUE)

CallSineSound ==
    /\ soundCall.count < MaxSoundCalls
    /\ \E freq \in Frequencies, duration \in SourceDurations :
         \E result \in {sine_sound(This, freq, duration)} :
            SoundCalled("sine_sound", << Number(freq), Number(duration) >>, result, TRUE)

CallSquareSound ==
    /\ soundCall.count < MaxSoundCalls
    /\ \E f \in Frequencies, duration \in SourceDurations :
         \E result \in {square_sound(This, f, duration)} :
            SoundCalled("square_sound", << Number(f), Number(duration) >>, result, TRUE)

CallTriangleSound ==
    /\ soundCall.count < MaxSoundCalls
    /\ \E freq \in Frequencies, duration \in SourceDurations :
         \E result \in {triangle_sound(This, freq, duration)} :
            SoundCalled("triangle_sound", << Number(freq), Number(duration) >>, result, TRUE)

CallSawtoothSound ==
    /\ soundCall.count < MaxSoundCalls
    /\ \E freq \in Frequencies, duration \in SourceDurations :
         \E result \in {sawtooth_sound(This, freq, duration)} :
            SoundCalled("sawtooth_sound", << Number(freq), Number(duration) >>, result, TRUE)

CallConsecutively ==
    /\ soundCall.count < MaxSoundCalls
    /\ \E list_of_sounds \in Lists :
         \E result \in {consecutively(This, list_of_sounds)} :
            SoundCalled("consecutively", << ListOf(list_of_sounds) >>, result, TRUE)

CallSimultaneously ==
    /\ soundCall.count < MaxSoundCalls
    /\ \E list_of_sounds \in Lists :
         \E result \in {simultaneously(This, list_of_sounds)} :
            SoundCalled("simultaneously", << ListOf(list_of_sounds) >>, result, TRUE)

\* adsr(attack_ratio, decay_ratio, sustain_level, release_ratio)(sound)
CallAdsr ==
    /\ soundCall.count < MaxSoundCalls
    /\ \E sound \in sounds :
         \E result \in {Transform(adsr(Rat(1, 4), Rat(1, 4), Rat(1, 2), Rat(1, 4)), sound)} :
            SoundCalled("adsr", << sound >>, result, TRUE)

\* phase_mod(freq, duration, amount)(modulator)
CallPhaseMod ==
    /\ soundCall.count < MaxSoundCalls
    /\ \E modulator \in sounds, freq \in Frequencies, duration \in SourceDurations :
         \E result \in {Transform(phase_mod(freq, duration, One), modulator)} :
            SoundCalled("phase_mod", << modulator, Number(freq), Number(duration) >>,
                        result, TRUE)

\* the instrument of that name
Instrument(name, this, note, duration) ==
    CASE name = "bell" -> bell(this, note, duration)
      [] name = "cello" -> cello(this, note, duration)
      [] name = "piano" -> piano(this, note, duration)
      [] name = "trombone" -> trombone(this, note, duration)
      [] name = "violin" -> violin(this, note, duration)

CallInstrument ==
    /\ soundCall.count < MaxSoundCalls
    /\ \E name \in Instruments, note \in Notes, duration \in SourceDurations :
         \E result \in {Instrument(name, This, note, duration)} :
            SoundCalled(name, << Number(Rat(note, 1)), Number(duration) >>, result, TRUE)

CallStackingAdsr ==
    /\ soundCall.count < MaxSoundCalls
    /\ \E waveform \in Waveforms, base_frequency \in Frequencies,
          duration \in SourceDurations :
         \E result \in {stacking_adsr(This, waveform, base_frequency, duration,
                                      << adsr(Zero, Rat(1, 2), Zero, Rat(1, 4)) >>)} :
            SoundCalled("stacking_adsr",
                        << waveform, Number(base_frequency), Number(duration) >>,
                        result, TRUE)

\* the call is over and the host has received what the call sent it
Played(name, given, result) ==
    /\ soundCall' = [name |-> name, given |-> given, value |-> result.value,
                     error |-> result.error, sent |-> Len(result.host) - Len(host),
                     count |-> soundCall.count + 1]
    /\ host' = result.host
    /\ sounds' = sounds
    /\ UNCHANGED <<renderVars, ramp, clock, graphVars, pixel>>

CallPlay ==
    /\ soundCall.count < MaxSoundCalls
    /\ \E sound \in sounds \cup RawValues :
         \E result \in {play(This, sound, host)} :
            Played("play", << sound >>, result)

CallPlayWave ==
    /\ soundCall.count < MaxSoundCalls
    /\ \E wave \in Waves, duration \in Durations :
         \E result \in {play_wave(This, wave, duration, host)} :
            Played("play_wave", << wave, Number(duration) >>, result)

\* the program takes an exported name off the plugin
ReadExport ==
    /\ soundCall.count < MaxSoundCalls
    /\ \E i \in DOMAIN exports :
         SoundCalled("exports", << StringOf(exports[i]) >>,
                     Returns(Property(exports[i])), FALSE)

SoundInit ==
    /\ heap = InitHeap
    /\ drawnRunes = <<>>
    /\ sessions = <<>>
    /\ gl = InitGl
    /\ lastCall = NoCall
    /\ ramp = NoRamp
    /\ clock = NoClock
    /\ held = UserRunes
    /\ call = NoCombinator
    /\ pixel = NoPixel
    /\ sounds = {}
    /\ host = <<>>
    /\ soundCall = NoSoundCall

SoundNext ==
    \/ CallMakeSound
    \/ CallSilenceSound
    \/ CallSineSound
    \/ CallSquareSound
    \/ CallTriangleSound
    \/ CallSawtoothSound
    \/ CallConsecutively
    \/ CallSimultaneously
    \/ CallAdsr
    \/ CallPhaseMod
    \/ CallInstrument
    \/ CallStackingAdsr
    \/ CallPlay
    \/ CallPlayWave
    \/ ReadExport

SpecSound == SoundInit /\ [][SoundNext]_vars

----------------------------------------------------------------------------
(* Properties                                                              *)

\* the positions of the calls named name in the last handler's trace
OpsNamed(name) == {i \in DOMAIN gl.ops : gl.ops[i].op = name}

\* the arguments of the calls named name in the last handler's trace
ArgsOf(name) == {gl.ops[i].arg : i \in OpsNamed(name)}

\* the last handler was an invocation of a playback callback that was
\* accepted (it got past the throttle), resp. ignored
AcceptedRender == lastCall.name = "render" /\ gl.ops # <<>>
IgnoredRender == lastCall.name = "render" /\ gl.ops = <<>>

LastClosure == sessions[lastCall.session].closure

\* C1: an invocation render(t) of a playback callback is ignored (nothing
\* cleared, nothing drawn, lastTime unchanged) exactly when t - lastTime < 40,
\* and otherwise lastTime becomes t; lastTime is 0 when draw returns; so
\* lastTime only ever moves by 40 ms or more.
C1_Throttle ==
    [][ /\ \A s \in DOMAIN sessions, t \in Times :
              HostInvoke(s, t) =>
                  IF t - sessions[s].closure.lastTime < 40
                  THEN /\ sessions' = sessions
                       /\ gl'.ops = <<>>
                       /\ gl'.screen = gl.screen
                  ELSE /\ sessions'[s].closure.lastTime = t
                       /\ OpsNamed("clear")' # {}
                       /\ OpsNamed("drawArrays")' # {}
        /\ \A d \in DOMAIN drawnRunes :
              HollusionDraw(d) => sessions'[Len(sessions')].closure.lastTime = 0
        /\ \A s \in DOMAIN sessions :
              sessions'[s].closure.lastTime # sessions[s].closure.lastTime
                  => sessions'[s].closure.lastTime - sessions[s].closure.lastTime >= 40
      ]_vars

\* an invocation has just been ignored by a callback that had accepted one
W_C1 == IgnoredRender /\ LastClosure.lastTime > 0

\* C2: an accepted invocation at time t selects the baked framebuffer at
\* index floor(t / 40) mod 50, an index in [0, 50), so the lookup yields one
\* of the 50 baked framebuffers and the callback does not throw.
C2_FrameIndex ==
    AcceptedRender =>
        LET t == LastClosure.lastTime
            index == (t \div 40) % 50
        IN /\ t >= 0
           /\ ~lastCall.threw
           /\ Len(LastClosure.frameBuffer) = 50
           /\ index \in 0..49
           /\ gl.textures[1] = LastClosure.frameBuffer[index + 1]
           /\ gl.textures[1] \in gl.framebuffers

\* an invocation was accepted in the second period, off a frame boundary
W_C2 == AcceptedRender /\ LastClosure.lastTime > period /\ LastClosure.lastTime % 40 # 0

\* C3: the frame index is periodic with period 2000 ms: the index computed
\* for t and the one computed for t + 2000 are equal, for every t >= 0.
C3_Periodic ==
    clock.framePos # -1 =>
        /\ clock.framePos = clock.framePosNextPeriod
        /\ clock.framePos \in 0..49

\* both indexes have been computed for a time past the first period and off
\* a frame boundary
W_C3 == clock.framePos # -1 /\ clock.timeInMs > period /\ clock.timeInMs % 40 # 0

\* C4: an accepted invocation clears the screen to opaque white and then
\* draws exactly one full-screen quad to the screen, sampling the selected
\* baked framebuffer through the pass-through program, creating no
\* framebuffer and drawing no scene, whatever other draws ran on the context
\* before it.
C4_Blit ==
    AcceptedRender =>
        LET selected == LastClosure.frameBuffer[((LastClosure.lastTime \div 40) % 50) + 1]
        IN /\ gl.ops = << Op("clear", 0), Op("bindTexture", selected), Op("drawArrays", 0) >>
           /\ gl.screen = [NoImage EXCEPT !.kind = "copy", !.sources = <<selected>>,
                                          !.background = "white"]

\* C5: when HollusionRune.draw returns, exactly 50 framebuffers have been
\* created and rendered, frame i first created and then rendered before
\* frame i + 1 is created, with the framebuffer of frame i at index i of the
\* baked array and holding the image of sample i; the callback has not run.
C5_Bake ==
    lastCall.name = "HollusionRune.draw" =>
        LET closure == LastClosure
        IN /\ Len(closure.frameBuffer) = 50
           /\ Cardinality(OpsNamed("createFramebuffer")) = 50
           /\ Cardinality(OpsNamed("drawRunes")) = 50
           /\ \A i \in 0..49 :
                 /\ gl.ops[2 * i + 1] = Op("createFramebuffer", closure.frameBuffer[i + 1])
                 /\ gl.ops[2 * i + 2] = Op("drawRunes", closure.frameBuffer[i + 1])
                 /\ gl.images[closure.frameBuffer[i + 1]].kind = "scene"
                 /\ gl.images[closure.frameBuffer[i + 1]].camera
                        = closure.xshiftMax
                            * (4 * (IF i > 25 THEN 2000 - 40 * i ELSE 40 * i) - 2000)
           /\ \A i, j \in 1..50 : i # j => closure.frameBuffer[i] # closure.frameBuffer[j]
           /\ OpsNamed("clear") = {}
           /\ OpsNamed("drawArrays") = {}
           /\ closure.lastTime = 0

\* HollusionRune.draw has just returned
W_C5 == lastCall.name = "HollusionRune.draw" /\ Len(LastClosure.frameBuffer) > 0

\* the camera offsets (numerators over period) baked for session s
BakedShifts(s) ==
    {gl.images[sessions[s].closure.frameBuffer[i]].camera :
        i \in DOMAIN sessions[s].closure.frameBuffer}

\* C6: the camera offsets baked by a HollusionRune range over [-m, +m],
\* where m is the magnitude its constructor was given.
C6_Amplitude ==
    \A s \in DOMAIN sessions :
        LET m == drawnRunes[sessions[s].owner].magnitude
        IN /\ \A x \in BakedShifts(s) : -m * period <= x /\ x <= m * period
           /\ -m * period \in BakedShifts(s)
           /\ m * period \in BakedShifts(s)

\* C7: for every sample i in [0, 50) the folded time lies in [0, period/2]
\* and xshift(i) = amplitude * (2 * (2 * raw / period) - 1) lies in
\* [-amplitude, +amplitude]; xshift(0) = -amplitude, xshift(25) = +amplitude,
\* xshift increases strictly over i = 0..25, and xshift(i) = xshift(50 - i)
\* for 0 < i < 50.  (shifts[i + 1] is period * xshift(i).)
C7_Ramp ==
    LET a == ramp.xshiftMax
        n == Len(ramp.shifts)
    IN /\ \A i \in 1..n :
             /\ 0 <= ramp.raws[i] /\ 2 * ramp.raws[i] <= 2000
             /\ ramp.shifts[i] = a * (4 * ramp.raws[i] - 2000)
             /\ -a * 2000 <= ramp.shifts[i] /\ ramp.shifts[i] <= a * 2000
       /\ n >= 1 => ramp.shifts[1] = -a * 2000
       /\ n >= 26 => ramp.shifts[26] = a * 2000
       /\ \A i, j \in 1..n : i < j /\ j <= 26 => ramp.shifts[i] < ramp.shifts[j]
       /\ \A i \in 1..49 : i + 1 <= n /\ 50 - i + 1 <= n
                              => ramp.shifts[i + 1] = ramp.shifts[50 - i + 1]

\* the whole ramp of 50 samples has been computed
W_C7 == Len(ramp.shifts) = 50 /\ ramp.xshiftMax > 1

\* C8: the framebuffers baked for a playback session stay allocated while
\* its callback may still be invoked, and all of them are released once the
\* session has ended.
C8_SessionLifetime ==
    \A s \in DOMAIN sessions :
        LET baked == SeqToSet(sessions[s].closure.frameBuffer)
        IN /\ sessions[s].live => baked \subseteq gl.framebuffers
           /\ ~sessions[s].live => baked \cap gl.framebuffers = {}

\* C9: when AnaglyphRune.draw returns, it has created two distinct
\* framebuffers, rendered the same primitive list into each (one pass tinted
\* red, one cyan) before the combining quad was drawn, and drawn that quad
\* once, to the screen, with its two samplers reading the two eye textures,
\* one each.
C9_EyePasses ==
    lastCall.name = "AnaglyphRune.draw" =>
        LET eyes == ArgsOf("createFramebuffer")
        IN /\ Cardinality(OpsNamed("createFramebuffer")) = 2
           /\ Cardinality(eyes) = 2
           /\ Cardinality(OpsNamed("drawRunes")) = 2
           /\ ArgsOf("drawRunes") = eyes
           /\ \A e \in eyes : \A f \in eyes :
                 /\ gl.images[e].kind = "scene"
                 /\ gl.images[e].runes = gl.images[f].runes
                 /\ gl.images[e].runes # <<>>
           /\ {gl.images[e].tint : e \in eyes} = {"red", "cyan"}
           /\ Cardinality(OpsNamed("drawArrays")) = 1
           /\ ArgsOf("drawArrays") = {0}
           /\ \A i \in OpsNamed("drawRunes"), j \in OpsNamed("drawArrays") : i < j
           /\ \A i \in OpsNamed("createFramebuffer"), j \in OpsNamed("drawRunes") :
                 gl.ops[i].arg = gl.ops[j].arg => i < j
           /\ gl.screen.kind = "anaglyph"
           /\ Len(gl.screen.sources) = 2
           /\ gl.screen.sources[1] # gl.screen.sources[2]
           /\ SeqToSet(gl.screen.sources) = eyes

\* AnaglyphRune.draw has just returned
W_C9 == lastCall.name = "AnaglyphRune.draw" /\ gl.screen.kind = "anaglyph"

\* C10: when AnaglyphRune.draw has returned, neither of the two framebuffers
\* it created is still allocated.
C10_Released ==
    lastCall.name = "AnaglyphRune.draw" =>
        ArgsOf("createFramebuffer") \cap gl.framebuffers = {}

\* the last combinator call returned, resp. was given only Runes
Returned(name) == call.name = name /\ call.error = NoError
GivenRunes == \A i \in DOMAIN call.runes : call.runes[i] # NotARune

\* the heap as it was before the last combinator call
HeapBefore == SubSeq(heap, 1, Len(heap) - call.allocated)

\* C11: the combining pass stores, per colour channel, the sum of the two
\* eye samples minus 1 clamped to [0, 1], with alpha 1: opaque white when
\* both samples are full white, opaque black when both are black; and it
\* stores the same whichever texture is bound to which sampler.
C11_Combine ==
    pixel.drawn =>
        /\ \A i \in 1..3 :
              LET sum == pixel.left[i] + pixel.right[i] - ColorOne
              IN pixel.out[i] = IF sum < 0 THEN 0 ELSE sum
        /\ pixel.out[4] = ColorOne
        /\ \A i \in 1..4 : pixel.out[i] \in 0..ColorOne
        /\ (\A i \in 1..3 : pixel.left[i] = ColorOne /\ pixel.right[i] = ColorOne)
               => pixel.out = <<ColorOne, ColorOne, ColorOne, ColorOne>>
        /\ (\A i \in 1..3 : pixel.left[i] = 0 /\ pixel.right[i] = 0)
               => pixel.out = <<0, 0, 0, ColorOne>>
        /\ pixel.out = pixel.outSwapped

\* two black samples, one of them transparent, have been combined
W_C11 ==
    /\ pixel.drawn
    /\ pixel.left = <<0, 0, 0, 0>>
    /\ pixel.right = <<0, 0, 0, ColorOne>>

\* C12: stack_frac, beside_frac and overlay_frac throw for every frac
\* outside [0, 1] and then construct no node and return nothing (the error
\* is the range error of the function when both Rune arguments are Runes);
\* for a frac in [0, 1] and Runes they return a new node.
C12_RangeErrors ==
    call.name \in {"stack_frac", "beside_frac", "overlay_frac"} =>
        LET frac == call.nums[1]
        IN IF frac[1] < 0 \/ frac[1] > frac[2]
           THEN /\ call.error # NoError
                /\ call.allocated = 0
                /\ call.value = NotARune
                /\ GivenRunes => call.error = [kind |-> "range", name |-> call.name]
           ELSE GivenRunes => /\ call.error = NoError
                              /\ call.allocated > 0
                              /\ call.value = Len(heap)

\* overlay_frac has thrown for a frac above 1
W_C12 ==
    /\ call.name = "overlay_frac"
    /\ call.nums = << Rat(11, 10) >>
    /\ call.error.kind = "range"

\* C13: overlay_frac(frac, rune1, rune2) for frac in [0, 1] returns a root
\* listing a front wrapper of rune1 before a back wrapper of rune2, the front
\* one z-scaled by f and the back one z-scaled by 1 - f and z-translated by
\* -f, with f = max(1e-6, min(frac, 1 - 1e-6)), 0 < f < 1: depth [0, -1] of
\* rune1 goes to [0, -f] and that of rune2 to [-f, -1].  Fractions 0 and
\* 1e-6 build the same nodes.
C13_OverlayClamp ==
    /\ Returned("overlay_frac") =>
          LET frac == call.nums[1]
              low == IF RLess(frac, Rat(1, 1000000)) THEN Rat(1, 1000000) ELSE frac
              f == IF RLess(Rat(999999, 1000000), low) THEN Rat(999999, 1000000) ELSE low
              root == heap[call.value]
              front == heap[root.subRunes[1]]
              back == heap[root.subRunes[2]]
          IN /\ RLess(Zero, f) /\ RLess(f, One)
             /\ call.allocated = 3
             /\ Len(root.subRunes) = 2
             /\ root.transformMatrix = mat4_create
             /\ front.subRunes = << call.runes[1] >>
             /\ back.subRunes = << call.runes[2] >>
             /\ front.transformMatrix = [mat4_create EXCEPT !.zz = f]
             /\ back.transformMatrix = [mat4_create EXCEPT !.zz = RSub(One, f), !.tz = RNeg(f)]
             /\ ApplyZ(front.transformMatrix, Zero) = Zero
             /\ ApplyZ(front.transformMatrix, RNeg(One)) = RNeg(f)
             /\ ApplyZ(back.transformMatrix, Zero) = RNeg(f)
             /\ ApplyZ(back.transformMatrix, RNeg(One)) = RNeg(One)
    /\ overlay_frac(InitHeap, Zero, square, blank)
           = overlay_frac(InitHeap, Rat(1, 1000000), square, blank)

\* overlay_frac has returned for frac = 0
W_C13 == Returned("overlay_frac") /\ call.nums = << Zero >>

\* C14: a combinator that is given a value that is not a Rune where a Rune
\* is expected throws an error naming that combinator, constructs no node
\* and returns nothing.
C14_TypeErrors ==
    (call.name # "none" /\ ~GivenRunes) =>
        /\ call.error = [kind |-> "type", name |-> call.name]
        /\ call.allocated = 0
        /\ call.value = NotARune

\* C15: the Runes a caller passes to the constructors (the primitives that
\* exist when the module is loaded) keep every field they were constructed
\* with, whatever constructions and draws are made.
C15_Immutable == \A id \in DOMAIN InitHeap : heap[id] = InitHeap[id]

\* C16: every node is a primitive leaf (geometry, no subRunes) or a
\* composite (one or two subRunes, no geometry), and every child of a node
\* was constructed before the node, so that no node reaches itself.
C16_LeafOrComposite ==
    \A id \in DOMAIN heap :
        /\ \/ heap[id].vertices # "" /\ heap[id].subRunes = <<>>
           \/ heap[id].vertices = "" /\ Len(heap[id].subRunes) \in {1, 2}
        /\ \A i \in DOMAIN heap[id].subRunes :
              heap[id].subRunes[i] \in 1..(id - 1)

\* the parents of node id
Parents(id) == {p \in DOMAIN heap : \E i \in DOMAIN heap[p].subRunes : heap[p].subRunes[i] = id}

\* after two calls a composite node has two parents
W_C16 ==
    /\ call.count = 2
    /\ \E id \in DOMAIN heap : heap[id].subRunes # <<>> /\ Cardinality(Parents(id)) >= 2

\* the number of z-scaling nodes on the deepest path below node id (the
\* depth of a scene under nested overlays is a product of their fractions)
RECURSIVE ZDepth(_)
RECURSIVE ZDepthAll(_)
ZDepth(id) ==
    (IF heap[id].transformMatrix.zz # One THEN 1 ELSE 0) + ZDepthAll(heap[id].subRunes)
ZDepthAll(ids) ==
    IF ids = <<>> THEN 0
    ELSE LET first == ZDepth(Head(ids))
             rest == ZDepthAll(Tail(ids))
         IN IF first > rest THEN first ELSE rest

\* the primitives of node id under transform m, as flatten lists them below
\* a root with hollusion distance dist and no colour or texture of its own
Under(m, id, dist) == FlattenFrom(heap, id, m, "none", "none", dist)

\* C17: stack_frac(frac, r1, r2) for frac in [0, 1] (stack: frac = 1/2) maps
\* r1's extent x, y in [-1, 1] to y in [1 - 2 frac, 1] and r2's to
\* y in [-1, 1 - 2 frac], x unchanged, no rotation or shear, r1's primitives
\* listed before r2's; beside_frac (beside) maps r1 to x in [-1, 2 frac - 1]
\* and r2 to x in [2 frac - 1, 1], y unchanged.
C17_Split ==
    (\E name \in {"stack_frac", "stack", "beside_frac", "beside"} : Returned(name)) =>
        LET frac == IF call.nums = <<>> THEN Rat(1, 2) ELSE call.nums[1]
            cut == RSub(One, RMul(Rat(2, 1), frac))
            root == heap[call.value]
            outer1 == heap[root.subRunes[1]]
            outer2 == heap[root.subRunes[2]]
            inner1 == heap[outer1.subRunes[1]]
            inner2 == heap[outer2.subRunes[1]]
            m1 == mat4_multiply(mat4_multiply(root.transformMatrix, outer1.transformMatrix),
                                inner1.transformMatrix)
            m2 == mat4_multiply(mat4_multiply(root.transformMatrix, outer2.transformMatrix),
                                inner2.transformMatrix)
            low == RNeg(One)
        IN /\ Len(root.subRunes) = 2
           /\ inner1.subRunes = << call.runes[1] >>
           /\ inner2.subRunes = << call.runes[2] >>
           /\ \A m \in {m1, m2} : m.xy = Zero /\ m.yx = Zero /\ m.zz = One /\ m.tz = Zero
           /\ IF call.name \in {"stack_frac", "stack"}
              THEN /\ Apply(m1, low, low) = << low, cut >>
                   /\ Apply(m1, One, One) = << One, One >>
                   /\ Apply(m2, low, low) = << low, low >>
                   /\ Apply(m2, One, One) = << One, cut >>
                   /\ m1.yy = frac
                   /\ frac = Rat(1, 2) => m2.yy = Rat(1, 2) /\ cut = Zero
              ELSE /\ Apply(m1, low, low) = << low, low >>
                   /\ Apply(m1, One, One) = << RNeg(cut), One >>
                   /\ Apply(m2, low, low) = << RNeg(cut), low >>
                   /\ Apply(m2, One, One) = << One, One >>
                   /\ m1.xx = frac
           /\ ZDepth(call.value) <= 1 =>
                  flatten(heap, call.value)
                      = Under(m1, call.runes[1], root.hollusionDistance)
                            \o Under(m2, call.runes[2], root.hollusionDistance)

\* stack_frac has returned for frac = 1/4 and two different Runes, the first
\* one a composite
W_C17 ==
    /\ Returned("stack_frac")
    /\ call.nums = << Rat(1, 4) >>
    /\ call.runes[1] # call.runes[2]
    /\ heap[call.runes[1]].subRunes # <<>>

\* the transform of the k-th of n equal shares of the height, from the top
Share(k, n) == [mat4_create EXCEPT !.yy = Rat(1, n), !.ty = Rat(n - 2 * k - 1, n)]

\* the primitives of n copies of node id, one per share, from share k on
RECURSIVE Shares(_, _, _, _)
Shares(id, n, k, dist) ==
    IF k >= n THEN <<>>
    ELSE Under(Share(k, n), id, dist) \o Shares(id, n, k + 1, dist)

\* C18: stackn(1, r) returns r itself and constructs nothing; stackn(n, r)
\* for n >= 1 returns a Rune whose primitives are those of n copies of r,
\* the k-th copy (from the top, k = 0..n-1) scaled to 1/n of the height and
\* occupying y in [1 - 2 (k + 1) / n, 1 - 2 k / n], listed top to bottom.
C18_Stackn ==
    Returned("stackn") =>
        LET r == call.runes[1]
        IN /\ call.n = 1 => call.value = r /\ call.allocated = 0
           /\ \A k \in 0..(call.n - 1) :
                 /\ Apply(Share(k, call.n), RNeg(One), RNeg(One))
                        = << RNeg(One), Rat(call.n - 2 * (k + 1), call.n) >>
                 /\ Apply(Share(k, call.n), One, One)
                        = << One, Rat(call.n - 2 * k, call.n) >>
           /\ ZDepth(call.value) <= 1 =>
                 /\ flatten(heap, call.value)
                        = Shares(r, call.n, 0, heap[call.value].hollusionDistance)
                 /\ Len(flatten(heap, call.value)) = call.n * Len(flatten(heap, r))

\* stackn has returned for the largest n
W_C18 == Returned("stackn") /\ call.n = MaxStackn

\* pattern applied n times to value, the first application being that to
\* value itself
RECURSIVE Applied(_, _, _, _)
Applied(h, n, pattern, value) ==
    IF n = 0 THEN Return(h, value)
    ELSE LET first == ApplyPattern(h, pattern, value)
         IN Applied(first.heap, n - 1, pattern, first.id)

\* C19: repeat_pattern(0, f, x) returns x itself, calls f not at all and
\* constructs nothing; repeat_pattern(n, f, x) for n >= 0 that returns has
\* called f exactly n times and returns f applied n times to x.
C19_RepeatPattern ==
    call.name = "repeat_pattern" =>
        /\ call.n = 0 => /\ call.error = NoError
                         /\ call.value = call.runes[1]
                         /\ call.calls = 0
                         /\ call.allocated = 0
        /\ call.error = NoError =>
              /\ call.calls = call.n
              /\ heap = Applied(HeapBefore, call.n, call.pattern, call.runes[1]).heap
              /\ call.value = Applied(HeapBefore, call.n, call.pattern, call.runes[1]).id

\* repeat_pattern has returned for the largest n
W_C19 == Returned("repeat_pattern") /\ call.n = MaxRepeat /\ call.calls = MaxRepeat

\* the primitive that flatten lists for the leaf id under the 2x2 block
\* (xx xy / yx yy) and the translation (tx, ty)
Placed(id, xx, xy, yx, yy, tx, ty) ==
    [vertices |-> heap[id].vertices,
     transformMatrix |-> [mat4_create EXCEPT !.xx = xx, !.xy = xy, !.yx = yx, !.yy = yy,
                                              !.tx = tx, !.ty = ty],
     colors |-> "black", texture |-> heap[id].texture,
     hollusionDistance |-> DefaultHollusionDistance]

\* C20: flatten(stack(square, square)) is two squares, the upper half and
\* then the lower half; flatten(make_cross(r)) for a primitive r is four
\* copies of r at half size: top-left r rotated by -pi/2, top-right r
\* rotated by pi, bottom-left r unrotated, bottom-right r rotated by +pi/2,
\* in this order.
C20_Flatten ==
    LET half == Rat(1, 2)
        back == Rat(-1, 2)
    IN /\ (Returned("stack") /\ call.runes = <<square, square>>) =>
              flatten(heap, call.value)
                  = << Placed(square, One, Zero, Zero, half, Zero, half),
                       Placed(square, One, Zero, Zero, half, Zero, back) >>
       /\ (Returned("make_cross") /\ heap[call.runes[1]].subRunes = <<>>) =>
              LET r == call.runes[1]
              IN flatten(heap, call.value)
                     = << Placed(r, Zero, half, back, Zero, back, half),
                          Placed(r, back, Zero, Zero, back, half, half),
                          Placed(r, half, Zero, Zero, half, back, back),
                          Placed(r, Zero, back, half, Zero, half, back) >>

\* make_cross has returned for a primitive
W_C20 == Returned("make_cross") /\ heap[call.runes[1]].subRunes = <<>>

\* the transforms under which the walk from node id, entered under
\* transform, reaches node target, one per path, in the order of the walk
RECURSIVE PathsTo(_, _, _)
RECURSIVE PathsToAll(_, _, _)
PathsTo(id, target, transform) ==
    IF id = target THEN << transform >>
    ELSE PathsToAll(heap[id].subRunes, target,
                    mat4_multiply(transform, heap[id].transformMatrix))
PathsToAll(ids, target, transform) ==
    IF ids = <<>> THEN <<>>
    ELSE PathsTo(Head(ids), target, transform) \o PathsToAll(Tail(ids), target, transform)

\* the primitives of node id under each of the transforms, in their order
RECURSIVE UnderEach(_, _, _)
UnderEach(transforms, id, dist) ==
    IF transforms = <<>> THEN <<>>
    ELSE Under(Head(transforms), id, dist) \o UnderEach(Tail(transforms), id, dist)

\* the last call has put the same Rune in all n >= 2 places of its result
SharedIn ==
    IF Returned("stackn") /\ call.n >= 2 THEN call.n
    ELSE IF /\ \E name \in {"stack", "stack_frac", "beside", "beside_frac"} : Returned(name)
            /\ call.runes[1] = call.runes[2]
    THEN 2
    ELSE 0

\* the determinant of the 2x2 block of m: zero when m collapses the plane
Det(m) == RSub(RMul(m.xx, m.yy), RMul(m.xy, m.yx))

\* the primitives that flatten lists for the result of the last call, and
\* those of the shared Rune r on its own
SharedFlat == flatten(heap, call.value)
SharedOne == Under(mat4_create, call.runes[1], heap[call.value].hollusionDistance)

\* the i-th of the len primitives of r has different world transforms in any
\* two of its n occurrences in the list flat
Apart(flat, len, n, i) ==
    \A j \in 1..n, k \in 1..n :
        j # k => flat[(j - 1) * len + i].transformMatrix
                     # flat[(k - 1) * len + i].transformMatrix

RoundTripOffsets == {Rat(-3, 2), Rat(1, 3), Rat(2, 1)}

\* C22: translate(x, y, r) returns a new node over r alone whose matrix is
\* the translation by (x, -y, 0); translate(-x, -y, translate(x, y, r))
\* composes the two translations to the identity, so that its primitives
\* are those of r, under the transforms they have in r.
C22_TranslateRoundTrip ==
    /\ Returned("translate") =>
          LET x == call.nums[1]
              y == call.nums[2]
              r == call.runes[1]
              root == heap[call.value]
          IN /\ call.allocated = 1
             /\ root.subRunes = << r >>
             /\ root.transformMatrix = [mat4_create EXCEPT !.tx = x, !.ty = RNeg(y)]
             /\ Apply(root.transformMatrix, Zero, Zero) = << x, RNeg(y) >>
             /\ (/\ r \notin DOMAIN InitHeap
                 /\ heap[r].transformMatrix = [mat4_create EXCEPT !.tx = RNeg(x), !.ty = y]
                 /\ heap[r].colors = "none"
                 /\ Len(heap[r].subRunes) = 1) =>
                    /\ mat4_multiply(root.transformMatrix, heap[r].transformMatrix) = mat4_create
                    /\ ZDepth(call.value) <= 1 =>
                           flatten(heap, call.value) = flatten(heap, heap[r].subRunes[1])
    /\ \A x \in RoundTripOffsets, y \in RoundTripOffsets :
          LET there == translate(InitHeap, x, y, square)
              back == translate(there.heap, RNeg(x), RNeg(y), there.id)
          IN /\ mat4_multiply(back.heap[back.id].transformMatrix,
                              there.heap[there.id].transformMatrix) = mat4_create
             /\ flatten(back.heap, back.id) = flatten(InitHeap, square)

\* translate(-x, -y, .) has been applied to what translate(x, y, .) returned
W_C22 ==
    /\ Returned("translate")
    /\ call.count = 2
    /\ call.runes[1] \notin DOMAIN InitHeap
    /\ heap[call.runes[1]].transformMatrix
           = [mat4_create EXCEPT !.tx = RNeg(call.nums[1]), !.ty = call.nums[2]]
    /\ heap[call.value].transformMatrix.ty # Zero

\* the depth at which a primitive is drawn: its geometry lies in the plane
\* z = 0 of its own coordinates (nearer the viewer is greater)
Depth(primitive) == ApplyZ(primitive.transformMatrix, Zero)

\* a primitive that has geometry to draw (blank has none)
Visible(primitive) == primitive.vertices # "blank"

\* the images a draw has rendered of the scene
SceneImages == {gl.images[f] : f \in ArgsOf("drawRunes")}

\* C23: when AnaglyphRune.draw or HollusionRune.draw returns, every image it
\* has rendered lists the primitives of the white backing before those of
\* the scene, and the depth of the backing's white square is strictly
\* farther from the viewer than that of every primitive of the scene that
\* has geometry.
C23_BackingBeneath ==
    lastCall.name \in {"AnaglyphRune.draw", "HollusionRune.draw"} =>
        LET backing == BackingFromSquare(heap)
            scene == flatten(heap, drawnRunes[lastCall.object].rune)
        IN /\ SceneImages # {}
           /\ \A image \in SceneImages : image.runes = Rendered(backing \o scene)
           /\ backing # <<>>
           /\ \A i \in DOMAIN backing : backing[i].colors = "white"
           /\ \E i \in DOMAIN backing : Visible(backing[i])
           /\ \A i \in DOMAIN backing, j \in DOMAIN scene :
                 (Visible(backing[i]) /\ Visible(scene[j]))
                     => RLess(Depth(backing[i]), Depth(scene[j]))

\* how far past its end a Sound is heard
Beyond == {Zero, Rat(1, 2 * FS), Rat(1, FS), Rat(5, FS)}

\* C24: every Sound made by make_sound or by an operation built on it
\* (silence_sound, sine_sound, consecutively, simultaneously, adsr, phase_mod,
\* stacking_adsr) is a Sound of a duration that is not negative, and its wave
\* is 0 at its duration and at every time after it; make_sound given a
\* negative duration throws and returns no Sound
C24_SoundDiscipline ==
    /\ \A s \in sounds :
         /\ is_sound(s)
         /\ RLeq(Zero, get_duration(s))
         /\ \A x \in Beyond : Invoke(get_wave(s), RAdd(get_duration(s), x)) = Zero
    /\ (soundCall.name = "make_sound" /\ RLess(soundCall.given[2].value, Zero)) =>
          /\ soundCall.error = "Sound duration must be greater than or equal to 0"
          /\ soundCall.value = Undefined
          /\ soundCall.value \notin sounds

\* a Sound joined from held Sounds is heard at its start and held by the
\* program, and a call of make_sound with a negative duration has thrown
W_C24 ==
    /\ soundCall.name = "make_sound"
    /\ soundCall.error # ""
    /\ \E s \in sounds :
         /\ get_wave(s).wave.op \in {"consec_two", "normalised_wave", "adsr", "phase_mod"}
         /\ RLess(Zero, get_duration(s))
         /\ Invoke(get_wave(s), Zero) # Zero

\* an amplitude kept within [-1, 1]
Clamped(amp) ==
    IF RLess(One, amp) THEN One ELSE IF RLess(amp, RNeg(One)) THEN RNeg(One) ELSE amp

\* what play(sound) has sent the host
SentByPlay == SubSeq(host, Len(host) - soundCall.sent + 1, Len(host))

\* play has thrown and the host has received nothing from it
PlayRejected == soundCall.error # "" /\ soundCall.value = Undefined /\ soundCall.sent = 0

\* C25: play(sound) throws and sends the host nothing when sound is not a
\* Sound or its duration is negative; returns sound and sends the host nothing
\* when the duration is 0; and otherwise returns sound after exactly one $play
\* call at 44100 Hz that carries ceil(44100 * duration) samples, sample i being
\* the wave at i / 44100 clamped into [-1, 1]
C25_Play ==
    soundCall.name = "play" =>
        LET sound == soundCall.given[1]
        IN IF ~is_sound(sound) THEN PlayRejected
           ELSE IF RLess(get_duration(sound), Zero) THEN PlayRejected
           ELSE IF get_duration(sound) = Zero
           THEN soundCall.error = "" /\ soundCall.value = sound /\ soundCall.sent = 0
           ELSE /\ soundCall.error = ""
                /\ soundCall.value = sound
                /\ soundCall.sent = 1
                /\ LET sent == SentByPlay[1]
                   IN /\ sent.name = "$play"
                      /\ sent.fs = 44100
                      /\ Len(sent.channel) = MathCeil(RMul(Rat(44100, 1), get_duration(sound)))
                      /\ \A i \in DOMAIN sent.channel :
                            /\ RLeq(RNeg(One), sent.channel[i])
                            /\ RLeq(sent.channel[i], One)
                            /\ sent.channel[i] =
                                  Clamped(Invoke(get_wave(sound), Rat(i - 1, 44100)))

\* play has sent the two samples of a Sound that lasts one sample and a half
\* and is louder than 1
W_C25 ==
    /\ soundCall.name = "play"
    /\ soundCall.sent = 1
    /\ get_duration(soundCall.given[1]) = Rat(3, 2 * FS)
    /\ Len(SentByPlay[1].channel) = 2
    /\ \E i \in 1..2 :
         /\ RLess(One, Invoke(get_wave(soundCall.given[1]), Rat(i - 1, FS)))
         /\ SentByPlay[1].channel[i] = One

\* the times a joined Sound is heard at: every half sample from 0 to 5 / FS
JoinTimes == {Rat(k, 2 * FS) : k \in 0..10}

\* the sum of the durations of the Sounds of a list
RECURSIVE TotalDuration(_)
TotalDuration(list) ==
    IF list = <<>> THEN Zero
    ELSE RAdd(get_duration(Head(list)), TotalDuration(Tail(list)))

\* the Sound of a list whose interval contains t, the first Sound starting at
\* 0 and each next one where the one before it ends: 0 when there is none
RECURSIVE At(_, _)
At(list, t) ==
    IF list = <<>> THEN 0
    ELSE IF RLess(t, get_duration(Head(list))) THEN 1
    ELSE LET k == At(Tail(list), RSub(t, get_duration(Head(list))))
         IN IF k = 0 THEN 0 ELSE k + 1

\* C26: consecutively(list) returns a Sound whose duration is the sum of the
\* durations of the Sounds of the list and whose wave, at a time t within the
\* interval of the k-th Sound, is the wave of that Sound at t less the
\* durations of the Sounds before it, and 0 at a time in no interval; for the
\* empty list it returns a Sound of duration 0
C26_Consecutively ==
    soundCall.name = "consecutively" =>
        LET list == soundCall.given[1].items
            joined == soundCall.value
        IN /\ soundCall.error = ""
           /\ is_sound(joined)
           /\ get_duration(joined) = TotalDuration(list)
           /\ list = <<>> => get_duration(joined) = Zero
           /\ \A t \in JoinTimes :
                LET k == At(list, t)
                IN Invoke(get_wave(joined), t) =
                      IF k = 0 THEN Zero
                      ELSE Invoke(get_wave(list[k]),
                                  RSub(t, TotalDuration(SubSeq(list, 1, k - 1))))

\* two Sounds of different durations that are heard differently have been
\* joined, and the second one is heard after the first has ended
W_C26 ==
    /\ soundCall.name = "consecutively"
    /\ soundCall.error = ""
    /\ Len(soundCall.given[1].items) = 2
    /\ LET first == soundCall.given[1].items[1]
           second == soundCall.given[1].items[2]
       IN /\ RLess(Zero, get_duration(first))
          /\ RLess(get_duration(first), get_duration(second))
          /\ Invoke(get_wave(first), Zero) # Invoke(get_wave(second), Zero)
          /\ Invoke(get_wave(soundCall.value), get_duration(first)) # Zero
          /\ Invoke(get_wave(soundCall.value), get_duration(first)) =
                Invoke(get_wave(second), Zero)

\* C27: bell, cello, piano, trombone and violin, given a MIDI note and a
\* duration that is not negative, return without throwing a Sound whose
\* duration is the duration given
C27_Instruments ==
    (soundCall.name \in Instruments /\ RLeq(Zero, soundCall.given[2].value)) =>
        /\ soundCall.error = ""
        /\ is_sound(soundCall.value)
        /\ get_duration(soundCall.value) = soundCall.given[2].value

\* C29: every name of exports is the name of a method of the plugin: what a
\* program takes off the plugin under an exported name is not undefined
C29_ExportsImplemented ==
    soundCall.name = "exports" =>
        /\ soundCall.given[1].text \in Methods
        /\ soundCall.value # Undefined

\* C28: the lastTime of a playback callback never decreases, whatever times
\* the host passes: an invocation at a time smaller than lastTime is ignored
\* (lastTime unchanged, nothing cleared, nothing drawn, the screen as it was)
C28_LastTimeMonotone ==
    [][ /\ \A s \in DOMAIN sessions :
              sessions'[s].closure.lastTime >= sessions[s].closure.lastTime
        /\ \A s \in DOMAIN sessions, t \in Times :
              (HostInvoke(s, t) /\ t < sessions[s].closure.lastTime) =>
                  /\ sessions' = sessions
                  /\ gl'.ops = <<>>
                  /\ gl'.screen = gl.screen
      ]_vars

\* a callback that had accepted a time has just ignored an earlier one that
\* is a whole frame or more after 0: the clock of the host has gone back
W_C28 ==
    /\ IgnoredRender
    /\ lastCall.timeInMs >= period \div frameCount
    /\ lastCall.timeInMs < LastClosure.lastTime


====
